---------------------------- MODULE Spec2Model ----------------------------
(***************************************************************************)
(* A model of the TLS termination core (src/src/tls_core.c): the state of  *)
(* one connection (tls_conf_conn_t plus the host's conn_rec), the frozen   *)
(* per-server configuration it reads, and one action per exposed operation *)
(* or library callback of the core.                                        *)
(***************************************************************************)
EXTENDS Integers, Sequences, FiniteSets, TLC

(* ------------------------------ bounds -------------------------------- *)

\* how often the TLS library may invoke the certificate selection callback
\* during one handshake
MaxSelect == 2

(* ------------------------- program constants -------------------------- *)

TLS_FLAG_UNSET == -1
TLS_FLAG_FALSE == 0
TLS_FLAG_TRUE == 1

\* tls_conn_state_t, in chronological order
TLS_CONN_ST_INIT == 0
TLS_CONN_ST_DISABLED == 1
TLS_CONN_ST_PRE_HANDSHAKE == 2
TLS_CONN_ST_HANDSHAKE == 3
TLS_CONN_ST_TRAFFIC == 4
TLS_CONN_ST_NOTIFIED == 5
TLS_CONN_ST_DONE == 6

\* TLS_CLIENT_AUTH_* modes of a server
TLS_CLIENT_AUTH_NONE == "none"
TLS_CLIENT_AUTH_OPTIONAL == "optional"
TLS_CLIENT_AUTH_REQUIRED == "required"

\* C NULL for strings, object handles and servers
NULL == "NULL"
NoObj == 0
NoServer == -1
\* the global hello config, as the configuration a session was created from
HelloConfig == -2

\* apr_status_t values and handler results
APR_SUCCESS == "APR_SUCCESS"
APR_NOTFOUND == "APR_NOTFOUND"
APR_ENOMEM == "APR_ENOMEM"
APR_EGENERAL == "APR_EGENERAL"
APR_ECONNABORTED == "APR_ECONNABORTED"
APR_EINVAL == "APR_EINVAL"
APR_ENOTIMPL == "APR_ENOTIMPL"
OK == "OK"
DECLINED == "DECLINED"
\* the result of a call whose cleanup block jumps back to its own label with the
\* library's error still set: the call does not return
NoReturn == "no return"
HTTP_SERVICE_UNAVAILABLE == "503"
HTTP_FORBIDDEN == "403"
HTTP_MISDIRECTED_REQUEST == "421"

(* ---------------------- the host's server records --------------------- *)

\* server 0 is the main server (ap_server_conf, gc->ap_server); 1 and 2 are
\* virtual hosts
Servers == {0, 1, 2}
ap_server_conf == 0

\* the names each server_rec answers to ("ab" is an alias of both vhosts)
ServerNames == [s \in Servers |->
    CASE s = 0 -> {"main"} [] s = 1 -> {"a", "ab"} [] OTHER -> {"b", "ab"}]

\* values of the SNI extension of a client hello, NULL when absent
SniValues == {NULL, "main", "ab", "b", "x"}

\* the ALPN lists a client hello may carry
AlpnLists == {<< >>, <<"acme-tls/1", "h2">>}

Protocols == {"http/1.1", "h2", "acme-tls/1"}

\* TLS versions and cipher suites the library may report as negotiated
TlsVersions == {771, 772}
CipherIds == {4865, 49199}

\* certified keys are handles: the registry's keys of server s, the key
\* loaded for a challenge, and clones of either made by OCSP stapling
RegKeys(s) == <<10 * s + 1, 10 * s + 2>>
FallbackKeys(s) == <<10 * s + 9>>
ChallengeKey == 99
CloneOf(k, n) == 1000 * n + k
KeyBase(k) == k % 1000
IsClone(k) == k >= 1000

SeqToSet(q) == {q[i] : i \in 1..Len(q)}

\* server_addr_rec values: the address TLSListen names, one with the same
\* port and length but other bytes, and one on another port
ListenAddr == [host_port |-> 443, ipaddr_len |-> 4, ipaddr_ptr |-> "192.0.2.1"]
OtherHostAddr == [host_port |-> 443, ipaddr_len |-> 4, ipaddr_ptr |-> "192.0.2.2"]
OtherPortAddr == [host_port |-> 80, ipaddr_len |-> 4, ipaddr_ptr |-> "192.0.2.1"]

(* ---------------------------- the state ------------------------------- *)

VARIABLES
    gc,             \* tls_conf_global_t, frozen after post-config
    conf,           \* tls_conf_server_t of each server, frozen after post-config
    chain,          \* c->vhost_lookup_data: the name-based vhosts of the address
    base_server,    \* c->base_server: the server the connection was accepted on
    outgoing,       \* c->outgoing
    cc_set,         \* the connection's module config slot holds a tls_conf_conn_t
    cc,             \* the tls_conf_conn_t
    cleanups,       \* release hooks registered on c->pool
    aborted,        \* c->aborted
    host_protocol,  \* what ap_get_protocol(c) answers
    sessions,       \* every rustls session object created for the connection
    clones,         \* certified keys cloned by OCSP stapling so far
    freed_keys,     \* certified keys passed to rustls_certified_key_free
    switch_calls,   \* protocols ap_switch_protocol was invoked with
    phase2,         \* what the last run of Phase 2 consulted and decided
    selects,        \* invocations of the certificate selection callback
    pc,             \* where the host and its I/O filter are with the connection
    ret             \* the last operation and what it returned

vars == <<gc, conf, chain, base_server, outgoing, cc_set, cc, cleanups, aborted, host_protocol,
          sessions, clones, freed_keys, switch_calls, phase2, selects, pc, ret>>

hostvars == <<gc, conf, chain, base_server, outgoing>>

(* --------------------- per-server configuration ----------------------- *)

\* The outcomes of post-config for one server: not TLS-enabled; enabled with
\* loaded certificates; enabled on fallback certificates; enabled without any
\* certificate; enabled with its base config released again (tls_core_free).
ConfKinds == {"off", "on", "fallback", "nokeys", "released"}

\* complete_cert_specs: the configured specifications, then those other
\* modules add; if there is none, the fallback ones other modules offer, which
\* mark the server as unavailable; a server left without any is only logged
complete_cert_specs(cert_specs, cert_adds, fallback_adds) ==
    LET specs == cert_specs \o cert_adds IN
    IF Len(specs) > 0 THEN [specs |-> specs, service_unavailable |-> 0]
    ELSE IF Len(fallback_adds) > 0
    THEN [specs |-> fallback_adds, service_unavailable |-> 1]
    ELSE [specs |-> << >>, service_unavailable |-> 0]

\* what a server of the given kind has configured (servers 0 and 1) or gets
\* contributed (server 2), and the fallback it is offered
CertSpecs(s, kind) ==
    [ cert_specs |-> IF kind \in {"on", "released"} /\ s # 2 THEN RegKeys(s) ELSE << >>,
      cert_adds |-> IF kind \in {"on", "released"} /\ s = 2 THEN RegKeys(s) ELSE << >>,
      fallback_adds |-> IF kind = "fallback" THEN FallbackKeys(s) ELSE << >> ]

\* the certificate part of server_conf_setup, which tls_core_init runs for
\* enabled servers only
ServerCerts(s, kind) ==
    LET in == CertSpecs(s, kind) IN
    IF kind = "off" THEN [specs |-> << >>, service_unavailable |-> 0]
    ELSE complete_cert_specs(in.cert_specs, in.cert_adds, in.fallback_adds)

ServerConf(s, kind, strict) ==
    [ enabled |-> IF kind = "off" THEN TLS_FLAG_FALSE ELSE TLS_FLAG_TRUE,
      strict_sni |-> strict,
      service_unavailable |-> ServerCerts(s, kind).service_unavailable,
      rustls_config |-> kind \in {"on", "fallback", "nokeys"},
      certified_keys |-> ServerCerts(s, kind).specs,
      client_auth |-> CASE s = 0 -> TLS_CLIENT_AUTH_NONE
                        [] s = 1 -> TLS_CLIENT_AUTH_OPTIONAL
                        [] OTHER -> TLS_CLIENT_AUTH_REQUIRED,
      tls_protocol_min |-> IF s = 1 THEN 772 ELSE 0,
      tls_supp_ciphers |-> IF s = 2 THEN {49199} ELSE {},
      base_server |-> IF s = ap_server_conf THEN 1 ELSE 0 ]

\* tls_conf_conn_t as apr_pcalloc leaves it
ZeroCC ==
    [ server |-> NoServer, state |-> TLS_CONN_ST_INIT, rustls_connection |-> NoObj,
      client_hello_seen |-> 0, sni_hostname |-> NULL, alpn |-> << >>,
      application_protocol |-> NULL, local_keys |-> << >>, key |-> NoObj,
      key_cloned |-> 0, service_unavailable |-> 0, peer_certs |-> 0,
      tls_protocol_id |-> 0, tls_cipher_id |-> 0, dc |-> NULL,
      last_error |-> 0, last_error_descr |-> NULL ]

NoPhase2 ==
    [ ran |-> FALSE, initial |-> NoServer, sni_match |-> 0, consulted |-> FALSE,
      current |-> NULL, proposed |-> NULL, answered |-> FALSE, from |-> NoServer,
      protocols |-> << >>, stage |-> "none", rv |-> APR_SUCCESS ]

\* The addresses a connection may arrive on: one without virtual hosts, served
\* by the main server, and one with the name-based vhosts 1 and 2, of which the
\* first is the address's default server.
Topologies ==
    { [base_server |-> 0, chain |-> << >>],
      [base_server |-> 1, chain |-> <<1, 2>>] }

\* the configurations post-config may have left, per address
KindChoices(t) ==
    IF t.chain = << >>
    THEN {k \in [Servers -> ConfKinds] : k[1] = "on" /\ k[2] = "on"}
    ELSE {k \in [Servers -> ConfKinds] :
            /\ k[0] \in {"on", "fallback"}
            /\ k[1] \in {"on", "released", "off"}
            /\ k[2] \in {"on", "nokeys", "off"}}

\* the global configuration post-config leaves to the connections
GlobalConf == [tls_addresses |-> <<ListenAddr>>, rustls_hello_config |-> TRUE]

Init ==
    /\ gc = GlobalConf
    /\ \E t \in Topologies :
         /\ base_server = t.base_server
         /\ chain = t.chain
         /\ \E k \in KindChoices(t), strict \in {TLS_FLAG_FALSE, TLS_FLAG_TRUE} :
              conf = [s \in Servers |-> ServerConf(s, k[s], strict)]
         /\ outgoing \in {0, 1}
    /\ cc_set = FALSE
    /\ cc = ZeroCC
    /\ cleanups = 0
    /\ aborted = 0
    /\ host_protocol = "http/1.1"
    /\ sessions = << >>
    /\ clones = 0
    /\ freed_keys = << >>
    /\ switch_calls = << >>
    /\ phase2 = NoPhase2
    /\ selects = 0
    /\ pc = "pre_connection"
    /\ ret = [op |-> "none", rv |-> APR_SUCCESS]

(* ------------------------- connection record -------------------------- *)

TLS_CONN_ST_IS_ENABLED(c) == c.state >= TLS_CONN_ST_PRE_HANDSHAKE

\* the record the module config slot yields after cc_get_or_make
cc_get_or_make ==
    IF cc_set THEN cc
    ELSE [ZeroCC EXCEPT !.server = base_server, !.state = TLS_CONN_ST_INIT]

\* what cc_get_or_make does to the slot and the pool besides
cc_made ==
    /\ cc_set' = TRUE
    /\ cleanups' = IF cc_set THEN cleanups ELSE cleanups + 1

\* conn_disable without its test for INIT
tls_core_conn_disable_always ==
    /\ pc = "pre_connection"
    /\ cc' = [cc_get_or_make EXCEPT !.state = TLS_CONN_ST_DISABLED]
    /\ cc_made
    /\ ret' = [op |-> "conn_disable", rv |-> APR_SUCCESS]
    /\ UNCHANGED <<hostvars, aborted, host_protocol, sessions, clones, freed_keys,
                   switch_calls, phase2, selects, pc>>

\* conn_disable leaving the state as it is
tls_core_conn_disable_never ==
    /\ pc = "pre_connection"
    /\ cc' = cc_get_or_make
    /\ cc_made
    /\ ret' = [op |-> "conn_disable", rv |-> APR_SUCCESS]
    /\ UNCHANGED <<hostvars, aborted, host_protocol, sessions, clones, freed_keys,
                   switch_calls, phase2, selects, pc>>

tls_core_conn_disable ==
    /\ pc = "pre_connection"
    /\ LET c0 == cc_get_or_make IN
         cc' = IF c0.state = TLS_CONN_ST_INIT
               THEN [c0 EXCEPT !.state = TLS_CONN_ST_DISABLED]
               ELSE c0
    /\ cc_made
    /\ ret' = [op |-> "conn_disable", rv |-> APR_SUCCESS]
    /\ UNCHANGED <<hostvars, aborted, host_protocol, sessions, clones, freed_keys,
                   switch_calls, phase2, selects, pc>>

tls_core_conn_bind ==
    /\ pc = "pre_connection"
    /\ \E dir_conf \in {NULL, "dir"} :
         cc' = [cc_get_or_make EXCEPT !.dc = dir_conf]
    /\ cc_made
    /\ ret' = [op |-> "conn_bind", rv |-> APR_SUCCESS]
    /\ UNCHANGED <<hostvars, aborted, host_protocol, sessions, clones, freed_keys,
                   switch_calls, phase2, selects, pc>>

\* a session object as rustls_server_connection_new returns it
NewSession(config, protocols) ==
    [config |-> config, alpn |-> protocols, userdata |-> FALSE, frees |-> 0]

rustls_connection_set_userdata(ss, id) == [ss EXCEPT ![id].userdata = TRUE]

rustls_connection_free(ss, id) == [ss EXCEPT ![id].frees = @ + 1]

\* tls_core_conn_init enabling the connection without creating the probe
\* session
conn_init_no_probe(c0, new_ok) ==
    LET sc == conf[base_server]
        enabled == outgoing = 0 /\ sc.enabled = TLS_FLAG_TRUE
        c1 == IF c0.state = TLS_CONN_ST_INIT
              THEN [c0 EXCEPT !.state = IF enabled THEN TLS_CONN_ST_PRE_HANDSHAKE
                                        ELSE TLS_CONN_ST_DISABLED]
              ELSE c0
    IN  [ cc |-> c1, sessions |-> sessions, aborted |-> aborted,
          rv |-> IF TLS_CONN_ST_IS_ENABLED(c1) THEN OK ELSE DECLINED ]

\* tls_core_conn_init creating a probe session whenever the connection is
\* enabled, whether it holds a session already or not
conn_init_probing_again(c0, new_ok) ==
    LET sc == conf[base_server]
        enabled == outgoing = 0 /\ sc.enabled = TLS_FLAG_TRUE
        c1 == IF c0.state = TLS_CONN_ST_INIT
              THEN [c0 EXCEPT !.state = IF enabled THEN TLS_CONN_ST_PRE_HANDSHAKE
                                        ELSE TLS_CONN_ST_DISABLED]
              ELSE c0
        id == Len(sessions) + 1
    IN  IF c0.state # TLS_CONN_ST_DISABLED /\ TLS_CONN_ST_IS_ENABLED(c1)
        THEN [ cc |-> [c1 EXCEPT !.rustls_connection = id,
                                 !.service_unavailable = sc.service_unavailable],
               sessions |-> rustls_connection_set_userdata(
                                Append(sessions, NewSession(HelloConfig, << >>)), id),
               aborted |-> aborted,
               rv |-> OK ]
        ELSE [ cc |-> c1, sessions |-> sessions, aborted |-> aborted,
               rv |-> DECLINED ]

\* tls_core_conn_init with the library accepting (new_ok) or rejecting the
\* creation of the probe session
conn_init(c0, new_ok) ==
    LET sc == conf[base_server]
        enabled == outgoing = 0 /\ sc.enabled = TLS_FLAG_TRUE
        c1 == IF c0.state = TLS_CONN_ST_INIT
              THEN [c0 EXCEPT !.state = IF enabled THEN TLS_CONN_ST_PRE_HANDSHAKE
                                        ELSE TLS_CONN_ST_DISABLED]
              ELSE c0
        create == /\ c0.state # TLS_CONN_ST_DISABLED
                  /\ TLS_CONN_ST_IS_ENABLED(c1)
                  /\ c1.rustls_connection = NoObj
        id == Len(sessions) + 1
    IN  IF create /\ new_ok
        THEN [ cc |-> [c1 EXCEPT !.rustls_connection = id,
                                 !.service_unavailable = sc.service_unavailable],
               sessions |-> rustls_connection_set_userdata(
                                Append(sessions, NewSession(HelloConfig, << >>)), id),
               aborted |-> aborted,
               rv |-> OK ]
        ELSE IF create
        THEN [ cc |-> [c1 EXCEPT !.state = TLS_CONN_ST_DISABLED],
               sessions |-> sessions,
               aborted |-> 1,
               rv |-> NoReturn ]
        ELSE [ cc |-> c1, sessions |-> sessions, aborted |-> aborted,
               rv |-> IF TLS_CONN_ST_IS_ENABLED(c1) THEN OK ELSE DECLINED ]

tls_core_conn_init ==
    /\ pc = "pre_connection"
    /\ \E new_ok \in BOOLEAN :
         LET r == conn_init(cc_get_or_make, new_ok) IN
           /\ cc' = r.cc
           /\ sessions' = r.sessions
           /\ aborted' = r.aborted
           /\ ret' = [op |-> "conn_init", rv |-> r.rv]
           /\ pc' = IF r.rv = NoReturn THEN "conn_init_cleanup" ELSE pc
    /\ cc_made
    /\ UNCHANGED <<hostvars, host_protocol, clones, freed_keys, switch_calls,
                   phase2, selects>>

\* one more turn of the cleanup block of tls_core_conn_init, entered again by
\* its own goto while the library's error is set
tls_core_conn_init_cleanup ==
    /\ pc = "conn_init_cleanup"
    /\ aborted' = 1
    /\ cc' = [cc EXCEPT !.state = TLS_CONN_ST_DISABLED]
    /\ UNCHANGED <<hostvars, cc_set, cleanups, host_protocol, sessions, clones,
                   freed_keys, switch_calls, phase2, selects, pc, ret>>

\* extract_client_hello_values: the hello callback of the hello config, run by
\* the library on the probe session when it has read the client hello
extract_client_hello_values ==
    /\ pc = "pre_connection"
    /\ cc_set
    /\ cc.state = TLS_CONN_ST_PRE_HANDSHAKE
    /\ cc.rustls_connection # NoObj
    /\ sessions[cc.rustls_connection].config = HelloConfig
    /\ \E sni \in SniValues, protos \in AlpnLists :
         cc' = [cc EXCEPT !.client_hello_seen = 1,
                          !.sni_hostname = sni,
                          !.alpn = IF Len(protos) > 0 THEN protos ELSE @]
    /\ pc' = "client_hello"
    /\ ret' = [op |-> "hello_callback", rv |-> NULL]
    /\ UNCHANGED <<hostvars, cc_set, cleanups, aborted, host_protocol, sessions,
                   clones, freed_keys, switch_calls, phase2, selects>>

(* ------------------------ Phase 2: the real session ------------------- *)

\* tls_util_name_matches_server: the hostname is one of the server's names
tls_util_name_matches_server(name, s) == name \in ServerNames[s]

\* find_vhost taking the first server offered, whatever its names
find_vhost_any(sni_hostname, c0, s) == [hit |-> 1, cc |-> [c0 EXCEPT !.server = s]]

\* find_vhost, the callback given to the host's vhost iterator
find_vhost(sni_hostname, c0, s) ==
    IF tls_util_name_matches_server(sni_hostname, s)
    THEN [hit |-> 1, cc |-> [c0 EXCEPT !.server = s]]
    ELSE [hit |-> 0, cc |-> c0]

\* ap_vhost_iterate_given_conn: the host calls find_vhost on the vhosts of the
\* connection's address, in order, until one call answers non-zero
RECURSIVE ap_vhost_iterate_given_conn(_, _, _)
ap_vhost_iterate_given_conn(c0, sni_hostname, i) ==
    IF i > Len(chain) THEN [hit |-> 0, cc |-> c0]
    ELSE LET f == find_vhost(sni_hostname, c0, chain[i]) IN
         IF f.hit # 0 THEN f
         ELSE ap_vhost_iterate_given_conn(c0, sni_hostname, i + 1)

\* the SNI part of Phase 2 counting a kept initial vhost as an SNI match
resolve_vhost_kept_is_match(c0) ==
    LET sc == conf[c0.server]
        it == ap_vhost_iterate_given_conn(c0, c0.sni_hostname, 1)
    IN  IF c0.sni_hostname # NULL
        THEN IF it.hit # 0
             THEN [cc |-> it.cc, sni_match |-> 1, rv |-> APR_SUCCESS]
             ELSE IF tls_util_name_matches_server(c0.sni_hostname, ap_server_conf)
             THEN [cc |-> [c0 EXCEPT !.server = ap_server_conf],
                   sni_match |-> 1, rv |-> APR_SUCCESS]
             ELSE IF sc.strict_sni = TLS_FLAG_FALSE
             THEN [cc |-> c0, sni_match |-> 1, rv |-> APR_SUCCESS]
             ELSE [cc |-> [c0 EXCEPT !.server = ap_server_conf],
                   sni_match |-> 0, rv |-> APR_NOTFOUND]
        ELSE [cc |-> c0, sni_match |-> 1, rv |-> APR_SUCCESS]

\* the SNI part of tls_core_conn_seen_client_hello
resolve_vhost(c0) ==
    LET sc == conf[c0.server]
        it == ap_vhost_iterate_given_conn(c0, c0.sni_hostname, 1)
    IN  IF c0.sni_hostname # NULL
        THEN IF it.hit # 0
             THEN [cc |-> it.cc, sni_match |-> 1, rv |-> APR_SUCCESS]
             ELSE IF tls_util_name_matches_server(c0.sni_hostname, ap_server_conf)
             THEN [cc |-> [c0 EXCEPT !.server = ap_server_conf],
                   sni_match |-> 1, rv |-> APR_SUCCESS]
             ELSE IF sc.strict_sni = TLS_FLAG_FALSE
             THEN [cc |-> c0, sni_match |-> 0, rv |-> APR_SUCCESS]
             ELSE [cc |-> [c0 EXCEPT !.server = ap_server_conf],
                   sni_match |-> 0, rv |-> APR_NOTFOUND]
        ELSE [cc |-> c0, sni_match |-> 0, rv |-> APR_SUCCESS]

\* use_local_key reporting success without keeping the key it loaded
use_local_key_unstored(c0, load_ok) ==
    [cc |-> c0, rv |-> IF load_ok THEN APR_SUCCESS ELSE APR_EGENERAL]

\* use_local_key: load the PEM pair as a one-shot key of the connection
\* use_local_key storing the key before it knows that the pair has loaded
use_local_key_storing_unloaded(c0, load_ok) ==
    [ cc |-> [c0 EXCEPT !.local_keys = <<ChallengeKey>>],
      rv |-> IF load_ok THEN APR_SUCCESS ELSE APR_EGENERAL ]

use_local_key(c0, load_ok) ==
    IF load_ok
    THEN [cc |-> [c0 EXCEPT !.local_keys = <<ChallengeKey>>], rv |-> APR_SUCCESS]
    ELSE [cc |-> c0, rv |-> APR_EGENERAL]

\* the ALPN list server_conf_setup gives every server's base configuration
BaseProtocols == <<"http/1.1">>

\* what the host and the library answer during one run of Phase 2
Phase2Inputs ==
    [ proposed : Protocols \cup {NULL},   \* ap_select_protocol
      switch_ok : BOOLEAN,                \* ap_switch_protocol
      protocols_ok : BOOLEAN,             \* rustls_server_config_builder_set_protocols
      answer : BOOLEAN,                   \* ap_ssl_answer_challenge
      load_ok : BOOLEAN,                  \* tls_cert_load_cert_key
      builder_ok : BOOLEAN,               \* rustls_server_config_builder_from_config
      new_ok : BOOLEAN ]                  \* rustls_server_connection_new

\* select_application_protocol keeping the host's protocol whatever the client
\* proposed
select_application_protocol_never(c0, protocols, in) ==
    [ cc |-> [c0 EXCEPT !.application_protocol = host_protocol],
      protocols |-> protocols, switched |-> << >>,
      host_protocol |-> host_protocol, aborted |-> aborted,
      consulted |-> Len(c0.alpn) > 0, answered |-> FALSE,
      stage |-> "alpn", rv |-> APR_SUCCESS ]

\* select_application_protocol on a builder whose ALPN list is `protocols`;
\* `stage` names the call that failed, if one did
select_application_protocol(c0, protocols, in) ==
    LET c1 == [c0 EXCEPT !.application_protocol = host_protocol]
        consulted == Len(c1.alpn) > 0
        switch == /\ consulted
                  /\ in.proposed # NULL
                  /\ in.proposed # c1.application_protocol
        base == [ cc |-> c1, protocols |-> protocols, switched |-> << >>,
                  host_protocol |-> host_protocol, aborted |-> aborted,
                  consulted |-> consulted, answered |-> FALSE,
                  stage |-> "alpn", rv |-> APR_SUCCESS ]
        called == [base EXCEPT !.switched = <<in.proposed>>]
        c2 == [c1 EXCEPT !.application_protocol = in.proposed]
        narrowed == [called EXCEPT !.cc = c2, !.protocols = <<in.proposed>>,
                                   !.host_protocol = in.proposed]
        lk == use_local_key(c2, in.load_ok)
    IN  IF ~switch THEN base
        ELSE IF ~in.switch_ok
        THEN [called EXCEPT !.stage = "switch", !.rv = APR_EGENERAL]
        ELSE IF ~in.protocols_ok
        THEN [called EXCEPT !.host_protocol = in.proposed, !.aborted = 1,
                            !.stage = "protocols", !.rv = NoReturn]
        ELSE IF in.proposed \in {"h2", "http/1.1"} \/ ~in.answer THEN narrowed
        ELSE IF lk.rv # APR_SUCCESS
        THEN [narrowed EXCEPT !.answered = TRUE, !.cc = lk.cc,
                              !.stage = "local_key", !.rv = lk.rv]
        ELSE [narrowed EXCEPT !.answered = TRUE,
                              !.cc = [lk.cc EXCEPT !.service_unavailable = 1]]

\* the end of Phase 2 also moving the connection into the handshake
replace_session_advance(c0, ss, config, protocols, new_ok) ==
    LET freed == rustls_connection_free(ss, c0.rustls_connection)
        id == Len(ss) + 1
    IN  IF new_ok
        THEN [ cc |-> [c0 EXCEPT !.rustls_connection = id,
                                 !.state = TLS_CONN_ST_HANDSHAKE],
               sessions |-> rustls_connection_set_userdata(
                                Append(freed, NewSession(config, protocols)), id),
               ok |-> TRUE ]
        ELSE [ cc |-> [c0 EXCEPT !.rustls_connection = NoObj],
               sessions |-> freed, ok |-> FALSE ]

\* the end of Phase 2 creating the real session without freeing the probe
replace_session_keep_probe(c0, ss, config, protocols, new_ok) ==
    LET id == Len(ss) + 1
    IN  IF new_ok
        THEN [ cc |-> [c0 EXCEPT !.rustls_connection = id],
               sessions |-> rustls_connection_set_userdata(
                                Append(ss, NewSession(config, protocols)), id),
               ok |-> TRUE ]
        ELSE [ cc |-> [c0 EXCEPT !.rustls_connection = NoObj],
               sessions |-> ss, ok |-> FALSE ]

\* the end of tls_core_conn_seen_client_hello: free the current session and
\* create the real one from the built configuration
replace_session(c0, ss, config, protocols, new_ok) ==
    LET freed == rustls_connection_free(ss, c0.rustls_connection)
        id == Len(ss) + 1
    IN  IF new_ok
        THEN [ cc |-> [c0 EXCEPT !.rustls_connection = id],
               sessions |-> rustls_connection_set_userdata(
                                Append(freed, NewSession(config, protocols)), id),
               ok |-> TRUE ]
        ELSE [ cc |-> [c0 EXCEPT !.rustls_connection = NoObj],
               sessions |-> freed, ok |-> FALSE ]

\* tls_core_conn_seen_client_hello; `stage` names the step it ended in
seen_client_hello(c0, in) ==
    LET initial == c0.server
        initial_sc == conf[initial]
        nothing == [ cc |-> c0, sessions |-> sessions, switched |-> << >>,
                     host_protocol |-> host_protocol, aborted |-> aborted,
                     sni_match |-> 0, consulted |-> FALSE, answered |-> FALSE,
                     from |-> NoServer, protocols |-> << >>, stage |-> "none",
                     rv |-> APR_SUCCESS ]
        rs == resolve_vhost(c0)
        sc == conf[rs.cc.server]
        c1 == [rs.cc EXCEPT !.service_unavailable =
                   IF rs.sni_match # 0 THEN sc.service_unavailable ELSE 0]
        from == IF sc.rustls_config THEN rs.cc.server ELSE initial
        ap == select_application_protocol(c1, BaseProtocols, in)
        chosen == [ nothing EXCEPT !.cc = ap.cc, !.switched = ap.switched,
                       !.host_protocol = ap.host_protocol, !.aborted = ap.aborted,
                       !.sni_match = rs.sni_match, !.consulted = ap.consulted,
                       !.answered = ap.answered, !.from = from,
                       !.protocols = ap.protocols, !.stage = ap.stage, !.rv = ap.rv ]
        rp == replace_session(ap.cc, sessions, from, ap.protocols, in.new_ok)
    IN  IF c0.client_hello_seen = 0 THEN nothing
        ELSE IF rs.rv # APR_SUCCESS
        THEN [nothing EXCEPT !.cc = rs.cc, !.stage = "sni", !.rv = rs.rv]
        ELSE IF ~sc.rustls_config /\ ~initial_sc.rustls_config
        THEN [nothing EXCEPT !.cc = c1, !.sni_match = rs.sni_match,
                             !.stage = "config", !.rv = APR_NOTFOUND]
        ELSE IF ~in.builder_ok
        THEN [nothing EXCEPT !.cc = c1, !.sni_match = rs.sni_match,
                             !.from = from, !.stage = "builder", !.rv = APR_ENOMEM]
        ELSE IF ap.rv # APR_SUCCESS THEN chosen
        ELSE IF ~rp.ok
        THEN [chosen EXCEPT !.cc = rp.cc, !.sessions = rp.sessions, !.aborted = 1,
                            !.stage = "session", !.rv = APR_EGENERAL]
        ELSE [chosen EXCEPT !.cc = rp.cc, !.sessions = rp.sessions,
                            !.stage = "done"]

tls_core_conn_seen_client_hello ==
    /\ pc \in {"pre_connection", "client_hello"}
    /\ cc_set
    /\ cc.state = TLS_CONN_ST_PRE_HANDSHAKE
    /\ \E in \in Phase2Inputs :
         LET r == seen_client_hello(cc, in) IN
           /\ cc' = r.cc
           /\ sessions' = r.sessions
           /\ aborted' = r.aborted
           /\ host_protocol' = r.host_protocol
           /\ switch_calls' = switch_calls \o r.switched
           /\ phase2' = IF cc.client_hello_seen = 0 THEN phase2
                        ELSE [ ran |-> TRUE, initial |-> cc.server,
                               sni_match |-> r.sni_match, consulted |-> r.consulted,
                               current |-> host_protocol,
                               proposed |-> IF r.consulted THEN in.proposed ELSE NULL,
                               answered |-> r.answered, from |-> r.from,
                               protocols |-> r.protocols, stage |-> r.stage,
                               rv |-> r.rv ]
           /\ pc' = IF cc.client_hello_seen = 0 THEN pc
                    ELSE IF r.rv = APR_SUCCESS THEN "phase2_ok"
                    ELSE IF r.rv = NoReturn THEN "alpn_cleanup" ELSE "failed"
           /\ ret' = [op |-> "seen_client_hello", rv |-> r.rv]
    /\ UNCHANGED <<hostvars, cc_set, cleanups, clones, freed_keys, selects>>

\* one more turn of the cleanup block of select_application_protocol, entered
\* again by its own goto while the library's error is set
select_application_protocol_cleanup ==
    /\ pc = "alpn_cleanup"
    /\ aborted' = 1
    /\ UNCHANGED <<hostvars, cc_set, cc, cleanups, host_protocol, sessions, clones,
                   freed_keys, switch_calls, phase2, selects, pc, ret>>

\* the I/O filter moves the connection into the handshake once Phase 2 has
\* succeeded
filter_start_handshake ==
    /\ pc = "phase2_ok"
    /\ cc' = [cc EXCEPT !.state = TLS_CONN_ST_HANDSHAKE]
    /\ pc' = "handshake"
    /\ ret' = [op |-> "filter", rv |-> APR_SUCCESS]
    /\ UNCHANGED <<hostvars, cc_set, cleanups, aborted, host_protocol, sessions,
                   clones, freed_keys, switch_calls, phase2, selects>>

(* ----------------------- the handshake and after ---------------------- *)

\* select_certified_key falling back to the main server when the selected
\* server has no key to offer
select_certified_key_rebind(c0, pick, ocsp) ==
    LET keys == IF Len(c0.local_keys) > 0 THEN c0.local_keys
                ELSE conf[c0.server].certified_keys
        c1 == [c0 EXCEPT !.key = NoObj, !.key_cloned = 0]
    IN  IF Len(keys) <= 0 \/ pick = 0
        THEN [cc |-> [c1 EXCEPT !.server = ap_server_conf], clones |-> clones,
              rv |-> NoObj]
        ELSE [cc |-> [c1 EXCEPT !.key = keys[pick]], clones |-> clones,
              rv |-> keys[pick]]

\* select_certified_key offering the selected server's keys only
select_certified_key_vhost_only(c0, pick, ocsp) ==
    LET keys == conf[c0.server].certified_keys
        c1 == [c0 EXCEPT !.key = NoObj, !.key_cloned = 0]
        n == IF pick > Len(keys) THEN Len(keys) ELSE pick
    IN  IF Len(keys) <= 0 \/ n = 0
        THEN [cc |-> c1, clones |-> clones, rv |-> NoObj]
        ELSE [cc |-> [c1 EXCEPT !.key = keys[n]], clones |-> clones, rv |-> keys[n]]

\* select_certified_key, the hello callback of every server's base config:
\* the library picks the pick-th candidate (0: it finds none acceptable) and
\* OCSP stapling has (ocsp) or has not a response to attach to a clone of it
select_certified_key(c0, pick, ocsp) ==
    LET sc == conf[c0.server]
        c1 == [c0 EXCEPT !.key = NoObj, !.key_cloned = 0]
        keys == IF Len(c0.local_keys) > 0 THEN c0.local_keys ELSE sc.certified_keys
        c2 == [c1 EXCEPT !.key = keys[pick]]
        clone == CloneOf(keys[pick], clones + 1)
    IN  IF c0.server = NoServer THEN [cc |-> c0, clones |-> clones, rv |-> NoObj]
        ELSE IF Len(keys) <= 0 \/ pick = 0
        THEN [cc |-> c1, clones |-> clones, rv |-> NoObj]
        ELSE IF ocsp
        THEN [cc |-> [c2 EXCEPT !.key_cloned = 1, !.key = clone],
              clones |-> clones + 1, rv |-> clone]
        ELSE [cc |-> c2, clones |-> clones, rv |-> c2.key]

\* the candidate list the callback hands to the library
Candidates(c0) ==
    IF Len(c0.local_keys) > 0 THEN c0.local_keys ELSE conf[c0.server].certified_keys

\* the selection callback leaving only the key it picked in the selected
\* server's certified_keys
client_hello_select_certified_key_caching ==
    /\ pc = "handshake"
    /\ selects < MaxSelect
    /\ cc.rustls_connection # NoObj
    /\ \E pick \in 0..Len(Candidates(cc)), ocsp \in BOOLEAN :
         LET r == select_certified_key(cc, pick, ocsp) IN
           /\ cc' = r.cc
           /\ clones' = r.clones
           /\ conf' = IF pick = 0 THEN conf
                      ELSE [conf EXCEPT ![cc.server].certified_keys =
                                            <<Candidates(cc)[pick]>>]
           /\ ret' = [op |-> "select_certified_key", rv |-> r.rv, pick |-> pick]
    /\ selects' = selects + 1
    /\ UNCHANGED <<gc, chain, base_server, outgoing, cc_set, cleanups, aborted,
                   host_protocol, sessions, freed_keys, switch_calls, phase2, pc>>

client_hello_select_certified_key ==
    /\ pc = "handshake"
    /\ selects < MaxSelect
    /\ cc.rustls_connection # NoObj
    /\ \E pick \in 0..Len(Candidates(cc)), ocsp \in BOOLEAN :
         LET r == select_certified_key(cc, pick, ocsp) IN
           /\ cc' = r.cc
           /\ clones' = r.clones
           /\ ret' = [op |-> "select_certified_key", rv |-> r.rv, pick |-> pick]
    /\ selects' = selects + 1
    /\ UNCHANGED <<hostvars, cc_set, cleanups, aborted, host_protocol, sessions,
                   freed_keys, switch_calls, phase2, pc>>

\* what the library reports once the handshake is over: whether it is still
\* handshaking, the negotiated version and cipher suite (0: none reported), the
\* length of the peer's certificate chain, and the result of exposing variables
PostHandshakeInputs ==
    [ handshaking : BOOLEAN,
      negotiated : {[version |-> 771, suite |-> 49199],
                    [version |-> 772, suite |-> 4865],
                    [version |-> 772, suite |-> 0]},
      peer : 0..1,
      var_rv : {APR_SUCCESS, APR_EGENERAL} ]

\* tls_core_conn_post_handshake going on without a negotiated cipher suite
post_handshake_unchecked(c0, in) ==
    LET c1 == [c0 EXCEPT !.tls_protocol_id = in.negotiated.version]
        c2 == [c1 EXCEPT !.tls_cipher_id = in.negotiated.suite]
        c3 == IF in.peer > 0 THEN [c2 EXCEPT !.peer_certs = in.peer] ELSE c2
    IN  IF in.handshaking THEN [cc |-> c0, rv |-> APR_EGENERAL]
        ELSE [cc |-> c3, rv |-> in.var_rv]

\* tls_core_conn_post_handshake
post_handshake(c0, in) ==
    LET sc == conf[c0.server]
        c1 == [c0 EXCEPT !.tls_protocol_id = in.negotiated.version]
        c2 == [c1 EXCEPT !.tls_cipher_id = in.negotiated.suite]
        c3 == IF in.peer > 0 THEN [c2 EXCEPT !.peer_certs = in.peer] ELSE c2
        rv1 == IF c3.peer_certs = 0 /\ sc.client_auth = TLS_CLIENT_AUTH_REQUIRED
               THEN APR_ECONNABORTED ELSE APR_SUCCESS
        rv2 == in.var_rv
    IN  IF in.handshaking THEN [cc |-> c0, rv |-> APR_EGENERAL]
        ELSE IF in.negotiated.suite = 0 THEN [cc |-> c1, rv |-> APR_EGENERAL]
        ELSE [cc |-> c3, rv |-> rv2]

tls_core_conn_post_handshake ==
    /\ pc = "handshake"
    /\ cc.rustls_connection # NoObj
    /\ \E in \in PostHandshakeInputs :
         \* a handshake whose certificate selection failed does not complete
         /\ (selects > 0 /\ cc.key = NoObj) => in.handshaking
         \* a server that does not verify clients is not shown their certificates
         /\ conf[sessions[cc.rustls_connection].config].client_auth
                = TLS_CLIENT_AUTH_NONE => in.peer = 0
         /\ LET r == post_handshake(cc, in) IN
              /\ cc' = r.cc
              /\ pc' = IF r.rv = APR_SUCCESS THEN "post_ok" ELSE "failed"
              /\ ret' = [op |-> "post_handshake", rv |-> r.rv]
    /\ UNCHANGED <<hostvars, cc_set, cleanups, aborted, host_protocol, sessions,
                   clones, freed_keys, switch_calls, phase2, selects>>

\* the I/O filter opens the connection for traffic once post_handshake has
\* succeeded, and closes it down in two steps
filter_start_traffic ==
    /\ pc = "post_ok"
    /\ cc' = [cc EXCEPT !.state = TLS_CONN_ST_TRAFFIC]
    /\ pc' = "traffic"
    /\ ret' = [op |-> "filter", rv |-> APR_SUCCESS]
    /\ UNCHANGED <<hostvars, cc_set, cleanups, aborted, host_protocol, sessions,
                   clones, freed_keys, switch_calls, phase2, selects>>

filter_shutdown ==
    /\ pc = "traffic"
    /\ cc.state \in {TLS_CONN_ST_TRAFFIC, TLS_CONN_ST_NOTIFIED}
    /\ cc' = [cc EXCEPT !.state = @ + 1]
    /\ ret' = [op |-> "filter", rv |-> APR_SUCCESS]
    /\ UNCHANGED <<hostvars, cc_set, cleanups, aborted, host_protocol, sessions,
                   clones, freed_keys, switch_calls, phase2, selects, pc>>

(* --------------------------- the request gate ------------------------- *)

\* tls_conn_compatible_for refusing also a connection at the other server's
\* minimum version
tls_conn_compatible_for_above(c0, other) ==
    LET oc == conf[other] IN
    IF c0.server = NoServer \/ other = NoServer THEN 0
    ELSE IF c0.server = other THEN 1
    ELSE IF oc.tls_protocol_min > 0 /\ c0.tls_protocol_id <= oc.tls_protocol_min THEN 0
    ELSE IF c0.tls_cipher_id \in oc.tls_supp_ciphers THEN 0
    ELSE 1

\* tls_conn_compatible_for
tls_conn_compatible_for(c0, other) ==
    LET oc == conf[other] IN
    IF c0.server = NoServer \/ other = NoServer THEN 0
    ELSE IF c0.server = other THEN 1
    ELSE IF oc.tls_protocol_min > 0 /\ c0.tls_protocol_id < oc.tls_protocol_min THEN 0
    ELSE IF c0.tls_cipher_id \in oc.tls_supp_ciphers THEN 0
    ELSE 1

\* tls_core_request_check asking for the SNI hostname before it looks at
\* service_unavailable
request_check_sni_first(r_server) ==
    IF ~cc_set \/ ~TLS_CONN_ST_IS_ENABLED(cc) THEN DECLINED
    ELSE IF cc.sni_hostname = NULL /\ chain # << >> THEN HTTP_FORBIDDEN
    ELSE IF cc.service_unavailable # 0 THEN HTTP_SERVICE_UNAVAILABLE
    ELSE IF tls_conn_compatible_for(cc, r_server) = 0 THEN HTTP_MISDIRECTED_REQUEST
    ELSE DECLINED

\* tls_core_request_check for a request the host routed to r_server
request_check(r_server) ==
    IF ~cc_set \/ ~TLS_CONN_ST_IS_ENABLED(cc) THEN DECLINED
    ELSE IF cc.service_unavailable # 0 THEN HTTP_SERVICE_UNAVAILABLE
    ELSE IF cc.sni_hostname = NULL /\ chain # << >> THEN HTTP_FORBIDDEN
    ELSE IF tls_conn_compatible_for(cc, r_server) = 0 THEN HTTP_MISDIRECTED_REQUEST
    ELSE DECLINED

\* tls_core_request_check aborting the connection with every request it
\* refuses
tls_core_request_check_aborting ==
    /\ \/ pc = "pre_connection"
       \/ pc = "traffic" /\ cc.state = TLS_CONN_ST_TRAFFIC
    /\ \E r_server \in Servers :
         /\ ret' = [op |-> "request_check", rv |-> request_check(r_server)]
         /\ aborted' = IF request_check(r_server) = DECLINED THEN aborted ELSE 1
    /\ UNCHANGED <<hostvars, cc_set, cc, cleanups, host_protocol, sessions,
                   clones, freed_keys, switch_calls, phase2, selects, pc>>

tls_core_request_check ==
    /\ \/ pc = "pre_connection"
       \/ pc = "traffic" /\ cc.state = TLS_CONN_ST_TRAFFIC
    /\ \E r_server \in Servers :
         ret' = [op |-> "request_check", rv |-> request_check(r_server)]
    /\ UNCHANGED <<hostvars, cc_set, cc, cleanups, aborted, host_protocol, sessions,
                   clones, freed_keys, switch_calls, phase2, selects, pc>>

(* --------------------------- the release hook ------------------------- *)

\* tls_core_conn_free, run when the connection's pool is destroyed
conn_free(c0) ==
    LET c1 == [c0 EXCEPT !.rustls_connection = NoObj]
        own == c0.key_cloned # 0 /\ c0.key # NoObj
        c2 == IF own THEN [c1 EXCEPT !.key = NoObj] ELSE c1
    IN  [ cc |-> [c2 EXCEPT !.local_keys = << >>],
          sessions |-> IF c0.rustls_connection # NoObj
                       THEN rustls_connection_free(sessions, c0.rustls_connection)
                       ELSE sessions,
          freed_keys |-> freed_keys \o (IF own THEN <<c0.key>> ELSE << >>)
                                    \o c0.local_keys ]

tls_core_conn_free ==
    /\ pc \notin {"conn_init_cleanup", "alpn_cleanup"}
    /\ cleanups > 0
    /\ LET r == conn_free(cc) IN
         /\ cc' = r.cc
         /\ sessions' = r.sessions
         /\ freed_keys' = r.freed_keys
    /\ pc' = "freed"
    /\ ret' = [op |-> "conn_free", rv |-> APR_SUCCESS]
    /\ UNCHANGED <<hostvars, cc_set, cleanups, aborted, host_protocol, clones,
                   switch_calls, phase2, selects>>

(* ------------------------------ properties ---------------------------- *)

C2_ServerReassignedOnceInPhase2 ==
    [][(cc_set /\ cc'.server # cc.server) =>
          /\ ret'.op = "seen_client_hello"
          /\ cc.client_hello_seen = 1
          /\ cc.state = TLS_CONN_ST_PRE_HANDSHAKE
          /\ cc.tls_protocol_id = 0
          /\ ~phase2.ran
          /\ phase2'.ran]_vars

\* Phase 2 has moved the connection to another server and the handshake on
\* it has been completed since
C2_Witness ==
    /\ phase2.ran
    /\ cc.server # phase2.initial
    /\ cc.state = TLS_CONN_ST_TRAFFIC

\* the vhosts of the connection's address whose names match the SNI hostname
SniMatches == {chain[i] : i \in {j \in 1..Len(chain) :
                                   cc.sni_hostname \in ServerNames[chain[j]]}}

\* C3: once Phase 2 has resolved the vhost: with an SNI hostname that a vhost
\* matches, cc.server is such a vhost; otherwise, if the main server's name
\* matches, cc.server is the main server; otherwise, when strict SNI is off
\* on the initial vhost or no SNI hostname was sent, cc.server is still the
\* server the connection was accepted on.
C3_VhostResolution ==
    phase2.ran =>
      IF cc.sni_hostname # NULL /\ SniMatches # {}
      THEN cc.server \in SniMatches
      ELSE IF cc.sni_hostname # NULL /\ cc.sni_hostname \in ServerNames[ap_server_conf]
      THEN cc.server = ap_server_conf
      ELSE (cc.sni_hostname = NULL
              \/ conf[phase2.initial].strict_sni = TLS_FLAG_FALSE)
           => (cc.server = base_server /\ cc.server = phase2.initial)

\* the SNI hostname selected a vhost other than the one accepted on
C3_Witness ==
    /\ phase2.ran
    /\ cc.sni_hostname = "b"
    /\ cc.server = 2
    /\ base_server = 1

\* the client named a host that no vhost of the address and not the main
\* server answers to, and the server accepted on demands a known name
StrictSniMiss ==
    /\ phase2.ran
    /\ cc.sni_hostname # NULL
    /\ SniMatches = {}
    /\ cc.sni_hostname \notin ServerNames[ap_server_conf]
    /\ conf[phase2.initial].strict_sni = TLS_FLAG_TRUE

\* C4: an SNI hostname that matches no vhost and not the main server, with
\* strict SNI on for the initial vhost: Phase 2 returns not-found, the
\* connection is aborted, no final session is created and the connection
\* never reaches TRAFFIC.
C4_StrictSniAborts ==
    StrictSniMiss =>
      /\ phase2.rv = APR_NOTFOUND
      /\ aborted = 1
      /\ Len(sessions) = 1
      /\ cc.state < TLS_CONN_ST_TRAFFIC

\* Phase 2 has returned not-found for the unknown name and the host's aborted
\* flag is still clear
C4_Witness ==
    /\ StrictSniMiss
    /\ ret.op = "seen_client_hello"
    /\ ret.rv = APR_NOTFOUND
    /\ aborted = 0

\* C5 as stated: when Phase 2 has completed successfully on a connection in
\* PRE_HANDSHAKE, the connection's state is HANDSHAKE.
C5_Phase2EntersHandshake ==
    (ret.op = "seen_client_hello" /\ ret.rv = APR_SUCCESS /\ phase2.ran)
      => cc.state = TLS_CONN_ST_HANDSHAKE

\* C5: a run of Phase 2, whatever its result, leaves the connection's state
\* as it found it, which is PRE_HANDSHAKE.
C5_Phase2KeepsState ==
    [][ret'.op = "seen_client_hello" =>
          /\ cc.state = TLS_CONN_ST_PRE_HANDSHAKE
          /\ cc'.state = cc.state]_vars

\* Phase 2 has just completed successfully with the real session in place
C5_Witness ==
    /\ ret.op = "seen_client_hello"
    /\ ret.rv = APR_SUCCESS
    /\ phase2.ran
    /\ cc.rustls_connection = 2
    /\ cc.state = TLS_CONN_ST_PRE_HANDSHAKE

\* Phase 2 has completed successfully and the connection is not yet released
Phase2Done == phase2.ran /\ phase2.rv = APR_SUCCESS /\ pc # "freed"

\* the probe session has been freed once and the connection holds the second
\* session, unfreed, made from `config`, with the connection as its user-data
OneFinalSession(config) ==
    /\ Len(sessions) = 2
    /\ sessions[1].config = HelloConfig
    /\ sessions[1].frees = 1
    /\ cc.rustls_connection = 2
    /\ sessions[2].frees = 0
    /\ sessions[2].userdata
    /\ sessions[2].config = config

\* C6 as stated: after a successful Phase 2 the probe session is destroyed
\* and the connection holds exactly one session, made from the configuration
\* of the selected vhost, with the connection as user-data, up to and in
\* TRAFFIC.
C6_SessionFromSelectedVhost == Phase2Done => OneFinalSession(cc.server)

\* C6: no connection ever gets more than two sessions, and after a successful
\* Phase 2 the probe session is destroyed and the connection holds exactly
\* one session, made from the configuration of the selected vhost when that
\* vhost has one and from that of the initial vhost otherwise, with the
\* connection as user-data, up to and in TRAFFIC.
C6_SessionReplacedOnce ==
    /\ Len(sessions) <= 2
    /\ Phase2Done =>
         OneFinalSession(IF conf[cc.server].rustls_config THEN cc.server
                         ELSE phase2.initial)

\* a connection in TRAFFIC on a vhost without a configuration of its own,
\* its session made from the configuration of the server accepted on
C6_Witness ==
    /\ Phase2Done
    /\ cc.state = TLS_CONN_ST_TRAFFIC
    /\ ~conf[cc.server].rustls_config
    /\ sessions[cc.rustls_connection].config = phase2.initial

\* the handshake errors of a connection: the library rejecting the probe
\* session, Phase 2 failing on strict SNI, on a missing base configuration, on
\* the protocol switch, on the ALPN narrowing or on the final session, and
\* post_handshake finding no peer certificate where one is required
HandshakeError ==
    \/ ret.op = "conn_init" /\ ret.rv = NoReturn
    \/ /\ ret.op = "seen_client_hello"
       /\ phase2.stage \in {"sni", "config", "switch", "protocols", "session"}
    \/ /\ ret.op = "post_handshake"
       /\ cc.tls_cipher_id # 0
       /\ cc.peer_certs = 0
       /\ conf[cc.server].client_auth = TLS_CLIENT_AUTH_REQUIRED

ProtocolDecided == phase2.ran /\ phase2.stage \notin {"none", "sni", "config", "builder"}

\* the client proposed protocols and the host's registry selected from them
\* one that differs from the connection's current protocol
SwitchDue ==
    /\ Len(cc.alpn) > 0
    /\ phase2.proposed # NULL
    /\ phase2.proposed # phase2.current

\* the switch has been made: one call of switch_protocol with the selected
\* protocol, the builder's ALPN list narrowed to it, and it is recorded
Switched ==
    /\ switch_calls = <<phase2.proposed>>
    /\ phase2.protocols = <<phase2.proposed>>
    /\ cc.application_protocol = phase2.proposed

\* C8 as stated: the switch is made exactly when it is due; when it is not,
\* switch_protocol is not invoked, the ALPN list is that of the base
\* configuration and cc.application_protocol is the host's current protocol.
C8_SwitchIffDue ==
    ProtocolDecided =>
      IF SwitchDue THEN Switched
      ELSE /\ switch_calls = << >>
           /\ phase2.protocols = BaseProtocols
           /\ cc.application_protocol = phase2.current

\* C8: when the switch is due, switch_protocol is invoked exactly once with
\* the selected protocol; unless that call fails or the library rejects the
\* narrowing, the ALPN list is narrowed to the selected protocol and
\* cc.application_protocol equals it; if one of the two fails, Phase 2 does
\* not succeed, the ALPN list is left as is and cc.application_protocol is
\* the previous protocol. When no switch is due, switch_protocol is not
\* invoked, the ALPN list is left as is and cc.application_protocol is the
\* host's current protocol.
C8_SwitchIffDueAndDone ==
    ProtocolDecided =>
      IF SwitchDue /\ phase2.stage \notin {"switch", "protocols"} THEN Switched
      ELSE /\ switch_calls = IF SwitchDue THEN <<phase2.proposed>> ELSE << >>
           /\ SwitchDue => phase2.rv # APR_SUCCESS
           /\ phase2.protocols = BaseProtocols
           /\ cc.application_protocol = phase2.current

\* the client's h2 was selected over the host's http/1.1 and Phase 2 went
\* through
C8_Witness ==
    /\ ProtocolDecided
    /\ SwitchDue
    /\ phase2.stage = "done"
    /\ switch_calls = <<"h2">>
    /\ cc.application_protocol = "h2"

\* the switch went to a challenge protocol and the host's challenge answerer
\* supplied a certificate and key for the SNI hostname
ChallengeAnswered ==
    /\ ProtocolDecided
    /\ SwitchDue
    /\ phase2.proposed \notin {"http/1.1", "h2"}
    /\ phase2.answered
    /\ pc # "freed"

\* the connection serves the challenge only
ChallengeOnly ==
    /\ cc.local_keys = <<ChallengeKey>>
    /\ cc.service_unavailable = 1
    /\ \A r \in Servers : request_check(r) = HTTP_SERVICE_UNAVAILABLE
    /\ (ret.op = "select_certified_key" /\ ret.pick # 0)
          => KeyBase(ret.rv) = ChallengeKey

\* C9 as stated: after a switch to a challenge protocol for which the
\* answerer supplied a pair, cc.local_keys holds the one-shot key,
\* cc.service_unavailable is set, the selection callback presents the
\* challenge key and every request_check returns 503.
C9_ChallengeServesOnlyChallenge == ChallengeAnswered => ChallengeOnly

\* C9: the same, provided the supplied pair loads as a certified key; when it
\* does not load, Phase 2 fails with cc.local_keys empty.
C9_LoadedChallengeServesOnlyChallenge ==
    ChallengeAnswered =>
      IF phase2.stage = "local_key"
      THEN phase2.rv # APR_SUCCESS /\ cc.local_keys = << >>
      ELSE ChallengeOnly

\* the selection callback has presented the challenge key on a connection
\* switched to acme-tls/1
C9_Witness ==
    /\ ChallengeAnswered
    /\ ret.op = "select_certified_key"
    /\ KeyBase(ret.rv) = ChallengeKey
    /\ cc.service_unavailable = 1

\* C10: the selection callback takes its candidates from cc.local_keys when
\* that list is non-empty and from the selected vhost's certified_keys
\* otherwise; it returns null when the list is empty or the library picks
\* none, and otherwise a member of the list or an OCSP clone of one, which is
\* also the key recorded as cc.key.
C10_SelectionFromCandidates ==
    ret.op = "select_certified_key" =>
      LET keys == IF Len(cc.local_keys) > 0 THEN cc.local_keys
                  ELSE conf[cc.server].certified_keys
      IN  IF Len(keys) = 0 \/ ret.pick = 0
          THEN ret.rv = NoObj /\ cc.key = NoObj
          ELSE /\ ret.rv # NoObj
               /\ KeyBase(ret.rv) \in SeqToSet(keys)
               /\ cc.key = ret.rv

\* the callback returned an OCSP clone of a key of the selected vhost
C10_Witness ==
    /\ ret.op = "select_certified_key"
    /\ IsClone(ret.rv)
    /\ Len(cc.local_keys) = 0
    /\ KeyBase(ret.rv) \in SeqToSet(conf[cc.server].certified_keys)
    /\ cc.key = ret.rv

\* C11: in every state of a connection, also after a failed key selection and
\* after the release hook, key_cloned set implies cc.key is not null.
C11_ClonedKeyNotNull == cc_set => (cc.key_cloned # 0 => cc.key # NoObj)

\* the release hook has freed the connection's clone and cleared cc.key, and
\* key_cloned is still set
C11_Witness ==
    /\ pc = "freed"
    /\ cc.key_cloned = 1
    /\ cc.key = NoObj
    /\ \E i \in 1..Len(freed_keys) : IsClone(freed_keys[i])

\* how many times the key `k` has been freed
TimesFreed(k) == Cardinality({i \in 1..Len(freed_keys) : freed_keys[i] = k})

\* the n-th clone made for the connection has been freed exactly once
CloneFreedOnce(n) ==
    Cardinality({i \in 1..Len(freed_keys) :
                   IsClone(freed_keys[i]) /\ freed_keys[i] \div 1000 = n}) = 1

\* Phase 2 loaded a challenge key for the connection
LocalKeyLoaded == phase2.ran /\ phase2.answered /\ phase2.stage # "local_key"

\* C12: when the release hook has run, every OCSP clone the selection callback
\* made for the connection, over all its invocations, and the local key, if
\* one was loaded, have been freed exactly once, and no key of the
\* certificate registry has been freed.
C12_OwnedKeysFreedOnce ==
    pc = "freed" =>
      /\ \A n \in 1..clones : CloneFreedOnce(n)
      /\ TimesFreed(ChallengeKey) = IF LocalKeyLoaded THEN 1 ELSE 0
      /\ \A i \in 1..Len(freed_keys) :
            IsClone(freed_keys[i]) \/ freed_keys[i] = ChallengeKey

\* the callback ran twice, making a clone each time, and the release hook
\* freed one key
C12_Witness ==
    /\ pc = "freed"
    /\ selects = 2
    /\ clones = 2
    /\ Len(freed_keys) = 1

\* the negotiated protocol version and cipher suite are recorded
NegotiatedSet == cc.tls_protocol_id # 0 /\ cc.tls_cipher_id # 0

\* C13 as stated: after post_handshake has run both negotiated ids are
\* non-zero, and so they are on every connection in TRAFFIC or later.
C13_NegotiatedSetAfterPostHandshake ==
    /\ ret.op = "post_handshake" => NegotiatedSet
    /\ (cc_set /\ cc.state >= TLS_CONN_ST_TRAFFIC) => NegotiatedSet

\* C13: after post_handshake has returned success both negotiated ids are
\* non-zero, and so they are on every connection in TRAFFIC or later; a run
\* that fails may leave one or both of them zero.
C13_NegotiatedSetAfterSuccess ==
    /\ (ret.op = "post_handshake" /\ ret.rv = APR_SUCCESS) => NegotiatedSet
    /\ (cc_set /\ cc.state >= TLS_CONN_ST_TRAFFIC) => NegotiatedSet
    /\ (ret.op = "post_handshake" /\ ~NegotiatedSet) => ret.rv = APR_EGENERAL

\* a connection in TRAFFIC with TLS 1.2 and its suite recorded
C13_Witness ==
    /\ cc.state = TLS_CONN_ST_TRAFFIC
    /\ cc.tls_protocol_id = 771
    /\ cc.tls_cipher_id = 49199

\* post_handshake got as far as looking for the peer's certificates, found
\* none, and the selected vhost requires client authentication
PeerCertsMissing ==
    /\ cc.tls_cipher_id # 0
    /\ cc.peer_certs = 0
    /\ conf[cc.server].client_auth = TLS_CLIENT_AUTH_REQUIRED

\* C14: with client authentication required on the selected vhost and no peer
\* certificate presented, post_handshake returns the connection-aborted error
\* whatever the exposition of the variables returns.
C14_MissingPeerCertsAbort ==
    (ret.op = "post_handshake" /\ PeerCertsMissing) => ret.rv = APR_ECONNABORTED

\* a connection in TRAFFIC on a vhost that requires client authentication,
\* without peer certificates, its session made from the configuration of a
\* server that only asks for them
C14_Witness ==
    /\ cc.state = TLS_CONN_ST_TRAFFIC
    /\ PeerCertsMissing
    /\ conf[sessions[cc.rustls_connection].config].client_auth
          = TLS_CLIENT_AUTH_OPTIONAL

\* vhost B accepts requests on the connection: it is the connection's own
\* vhost, or the connection's version is not below B's minimum and its suite
\* is not one B suppresses
Compatible(B) ==
    \/ B = cc.server
    \/ /\ conf[B].tls_protocol_min = 0
          \/ cc.tls_protocol_id >= conf[B].tls_protocol_min
       /\ cc.tls_cipher_id \notin conf[B].tls_supp_ciphers

\* what the gate is to answer to a request routed to vhost B, in the order of
\* priority: not enabled, 503, 403, 421
GateAnswer(B) ==
    CASE ~cc_set \/ cc.state < TLS_CONN_ST_PRE_HANDSHAKE -> DECLINED
      [] OTHER ->
         CASE cc.service_unavailable # 0 -> HTTP_SERVICE_UNAVAILABLE
           [] OTHER ->
              CASE cc.sni_hostname = NULL /\ Len(chain) > 0 -> HTTP_FORBIDDEN
                [] OTHER -> IF Compatible(B) THEN DECLINED
                            ELSE HTTP_MISDIRECTED_REQUEST

\* C15: in every state of a connection and for every request, request_check
\* answers DECLINED when the connection is not TLS-enabled, else 503 when
\* service_unavailable is set, else 403 when there is no SNI hostname and the
\* address has vhosts, else 421 when the request's vhost is incompatible, else
\* DECLINED.
C15_GatePriority ==
    /\ \A B \in Servers : request_check(B) = GateAnswer(B)
    /\ ret.op = "request_check" => \E B \in Servers : ret.rv = GateAnswer(B)

\* a request got 503 on a connection without SNI hostname on an address with
\* vhosts, for a vhost the connection is not compatible with
C15_Witness ==
    /\ ret.op = "request_check"
    /\ ret.rv = HTTP_SERVICE_UNAVAILABLE
    /\ cc.sni_hostname = NULL
    /\ Len(chain) > 0
    /\ \E B \in Servers : ~Compatible(B)

C17_GateChangesNothing ==
    [][ret'.op = "request_check" =>
          /\ cc' = cc
          /\ cc_set' = cc_set
          /\ aborted' = aborted
          /\ sessions' = sessions
          /\ freed_keys' = freed_keys
          /\ host_protocol' = host_protocol
          /\ \A B \in Servers : request_check(B)' = request_check(B)]_vars

\* a request was refused with 403 and the connection is in TRAFFIC, not
\* aborted
C17_Witness ==
    /\ ret.op = "request_check"
    /\ ret.rv = HTTP_FORBIDDEN
    /\ cc.state = TLS_CONN_ST_TRAFFIC
    /\ aborted = 0

\* the SNI hostname is a name of a vhost of the address or of the main server
SniMatched ==
    /\ cc.sni_hostname # NULL
    /\ SniMatches # {} \/ cc.sni_hostname \in ServerNames[ap_server_conf]

\* C18: after a Phase 2 that did not fail on strict SNI, the connection's
\* service_unavailable is 1 when a challenge key was loaded in that Phase 2;
\* otherwise it is the selected vhost's service_unavailable when the SNI
\* hostname matched a vhost or the main server, and 0 when there was no match
\* (no SNI hostname, or a name that matched nothing under relaxed SNI).
C18_ServiceUnavailableRecomputed ==
    (phase2.ran /\ phase2.stage # "sni") =>
      cc.service_unavailable =
         IF LocalKeyLoaded THEN 1
         ELSE IF SniMatched THEN conf[cc.server].service_unavailable
         ELSE 0

\* a connection accepted on a server with fallback certificates only sent no
\* matching name, and Phase 2 cleared the flag conn_init had set
C18_Witness ==
    /\ phase2.ran
    /\ phase2.stage = "done"
    /\ ~SniMatched
    /\ conf[cc.server].service_unavailable = 1
    /\ cc.service_unavailable = 0

\* the selected vhost runs on fallback certificates: nothing configured,
\* nothing contributed, a fallback offered
OnFallbackVhost ==
    /\ cc_set
    /\ cc.server # NoServer
    /\ conf[cc.server].certified_keys = FallbackKeys(cc.server)

\* C19: a vhost left with fallback certificates only is marked
\* service_unavailable by post-config, and every request on a TLS connection
\* that ended up on such a vhost, selected by SNI or kept as the initial vhost,
\* gets 503.
C19_FallbackAlways503 ==
    /\ \A s \in Servers :
          conf[s].certified_keys = FallbackKeys(s) => conf[s].service_unavailable = 1
    /\ (OnFallbackVhost /\ phase2.ran /\ cc.state = TLS_CONN_ST_TRAFFIC) =>
          \A B \in Servers : request_check(B) = HTTP_SERVICE_UNAVAILABLE

\* a request on a connection kept on its initial vhost, which has fallback
\* certificates only, was not answered 503
C19_Witness ==
    /\ OnFallbackVhost
    /\ phase2.ran
    /\ ~SniMatched
    /\ ret.op = "request_check"
    /\ cc.state = TLS_CONN_ST_TRAFFIC
    /\ ret.rv # HTTP_SERVICE_UNAVAILABLE

\* TLS is enabled for the server the connection was accepted on and the
\* connection is not an outgoing one
TlsEnabled == outgoing = 0 /\ conf[base_server].enabled = TLS_FLAG_TRUE

\* after the step the connection holds a session made from the hello config
HoldsProbe ==
    /\ cc'.rustls_connection # NoObj
    /\ sessions'[cc'.rustls_connection].config = HelloConfig
    /\ sessions'[cc'.rustls_connection].userdata
    /\ sessions'[cc'.rustls_connection].frees = 0

\* C20 as stated: conn_init on a connection in INIT leaves the state
\* PRE_HANDSHAKE when TLS is enabled and DISABLED otherwise, returns OK when
\* the connection is enabled after the call and DECLINED otherwise, and with
\* OK the connection holds a probe session made from the hello config.
C20_ConnInitDecides ==
    [][(ret'.op = "conn_init" /\ cc.state = TLS_CONN_ST_INIT) =>
          /\ cc'.state = IF TlsEnabled THEN TLS_CONN_ST_PRE_HANDSHAKE
                         ELSE TLS_CONN_ST_DISABLED
          /\ ret'.rv = IF cc'.state >= TLS_CONN_ST_PRE_HANDSHAKE THEN OK ELSE DECLINED
          /\ ret'.rv = OK => HoldsProbe]_vars

\* C20: the same when the TLS library creates the probe session; when it
\* rejects it, the state is DISABLED, the host's aborted flag is set, no
\* session is held and OK is not returned.
C20_ConnInitDecidesUnlessRejected ==
    [][(ret'.op = "conn_init" /\ cc.state = TLS_CONN_ST_INIT) =>
          IF ret'.rv = NoReturn
          THEN /\ TlsEnabled
               /\ cc'.state = TLS_CONN_ST_DISABLED
               /\ aborted' = 1
               /\ cc'.rustls_connection = NoObj
               /\ sessions' = sessions
          ELSE /\ cc'.state = IF TlsEnabled THEN TLS_CONN_ST_PRE_HANDSHAKE
                              ELSE TLS_CONN_ST_DISABLED
               /\ ret'.rv = IF cc'.state >= TLS_CONN_ST_PRE_HANDSHAKE
                            THEN OK ELSE DECLINED
               /\ ret'.rv = OK => HoldsProbe
               /\ ret'.rv = DECLINED => sessions' = sessions]_vars

\* conn_init has returned OK and the connection holds its probe session
C20_Witness ==
    /\ ret.op = "conn_init"
    /\ ret.rv = OK
    /\ cc.state = TLS_CONN_ST_PRE_HANDSHAKE
    /\ Len(sessions) = 1
    /\ cc.rustls_connection = 1
    /\ sessions[1].config = HelloConfig

\* C21: a call of conn_disable takes a connection in INIT to DISABLED and
\* changes nothing else; on a connection in any other state it changes
\* nothing. A connection that is DISABLED stays DISABLED: every later conn_init
\* returns DECLINED and creates no session, and request_check declines every
\* request.
C21_DisableOnlyFromInit ==
    [][/\ ret'.op = "conn_disable" =>
             /\ cc' = IF cc.state = TLS_CONN_ST_INIT
                      THEN [cc_get_or_make EXCEPT !.state = TLS_CONN_ST_DISABLED]
                      ELSE cc
             /\ sessions' = sessions
             /\ aborted' = aborted
       /\ (cc.state = TLS_CONN_ST_DISABLED /\ pc = "pre_connection") =>
             /\ cc'.state = TLS_CONN_ST_DISABLED
             /\ sessions' = sessions
             /\ ret'.op = "conn_init" => ret'.rv = DECLINED
             /\ \A B \in Servers : request_check(B)' = DECLINED]_vars

\* conn_init has declined a connection that conn_disable had disabled, on a
\* server with TLS enabled
C21_Witness ==
    /\ ret.op = "conn_init"
    /\ ret.rv = DECLINED
    /\ TlsEnabled
    /\ aborted = 0
    /\ cc.state = TLS_CONN_ST_DISABLED
    /\ sessions = << >>

\* C22: every call of conn_init and of on_client_hello_seen comes to its end
\* and returns a status, also when the TLS library rejects the probe session,
\* the narrowing of the ALPN list or the final session.
C22_CallsReturn ==
    /\ ret.op \in {"conn_init", "seen_client_hello"} => ret.rv # NoReturn
    /\ pc \notin {"conn_init_cleanup", "alpn_cleanup"}

\* the library has rejected the narrowing of the ALPN list and
\* select_application_protocol turns in its cleanup block
C22_Witness ==
    /\ pc = "alpn_cleanup"
    /\ ret.op = "seen_client_hello"
    /\ ret.rv = NoReturn
    /\ phase2.stage = "protocols"
    /\ aborted = 1

\* C23: no session of a connection is freed twice; a session that is not
\* freed is the one the connection holds, and the release hook can still run
\* for it; once the release hook has run, once or more often, every session
\* created for the connection has been freed exactly once.
C23_SessionsFreedOnce ==
    /\ \A i \in 1..Len(sessions) : sessions[i].frees <= 1
    /\ \A i \in 1..Len(sessions) :
          sessions[i].frees = 0 =>
             /\ cc.rustls_connection = i
             /\ sessions[i].userdata
             /\ ENABLED tls_core_conn_free
    /\ pc = "freed" => \A i \in 1..Len(sessions) : sessions[i].frees = 1

\* the probe session is unfreed and the connection's worker turns in the
\* cleanup block of select_application_protocol
C23_Witness ==
    /\ pc = "alpn_cleanup"
    /\ Len(sessions) = 1
    /\ sessions[1].frees = 0
    /\ cc.rustls_connection = 1

\* on the paths other than that one: after the release hook every session has
\* been freed exactly once
SessionsFreedOnceOnReturn ==
    /\ \A i \in 1..Len(sessions) : sessions[i].frees <= 1
    /\ \A i \in 1..Len(sessions) : sessions[i].frees = 0 => cc.rustls_connection = i
    /\ pc = "freed" => \A i \in 1..Len(sessions) : sessions[i].frees = 1

tls_core_error(c0, rr, errstr) ==
    [c0 EXCEPT !.last_error = rr, !.last_error_descr = errstr]

\* result codes of the TLS library other than RUSTLS_RESULT_OK, with the
\* descriptor the library gives for them
RustlsErrors ==
    { [rr |-> 7002, descr |-> "null parameter"],
      [rr |-> 7004, descr |-> "panic"] }

\* the TLS library rejected a step of the handshake set-up: the probe session
\* in conn_init, the ALPN narrowing or the final session in Phase 2
LibraryRejection ==
    \/ ret.op = "conn_init" /\ ret.rv = NoReturn
    \/ ret.op = "seen_client_hello" /\ phase2.stage \in {"protocols", "session"}

\* C25: when the TLS library rejected the probe session, the ALPN narrowing
\* or the final session, the connection's record is what tls_core_error
\* leaves for one of the library's error codes: last_error holds the code and
\* last_error_descr its descriptor.
C25_RejectionsStashed ==
    LibraryRejection =>
        \E e \in RustlsErrors :
            cc = tls_core_error(cc, e.rr, e.descr)

\* the library rejected the final session of Phase 2 and the connection's
\* record holds no error code
C25_Witness ==
    /\ ret.op = "seen_client_hello"
    /\ phase2.stage = "session"
    /\ ret.rv = APR_EGENERAL
    /\ aborted = 1
    /\ cc.last_error = 0
    /\ cc.last_error_descr = NULL

\* the connection holds a live session created from cfg
HoldsSessionFrom(cfg) ==
    /\ cc.rustls_connection # NoObj
    /\ sessions[cc.rustls_connection].config = cfg
    /\ sessions[cc.rustls_connection].frees = 0

\* C30: after Phase 2 has created the final session, its config is that of
\* the selected server when that one has a base config and that of the
\* initial server otherwise; when neither has one Phase 2 returns
\* APR_NOTFOUND, no final session exists and the connection still holds the
\* probe. For a final session the certificate selection callback has a
\* non-empty candidate list whenever the server the config was cloned from
\* has certified keys.
C30_ClonedConfigAndCandidates ==
    /\ (ret.op = "seen_client_hello" /\ phase2.stage = "done") =>
          HoldsSessionFrom(IF conf[cc.server].rustls_config THEN cc.server
                           ELSE phase2.initial)
    /\ (ret.op = "seen_client_hello" /\ phase2.stage = "config") =>
          /\ ~conf[cc.server].rustls_config
          /\ ~conf[phase2.initial].rustls_config
          /\ ret.rv = APR_NOTFOUND
          /\ Len(sessions) = 1
          /\ HoldsSessionFrom(HelloConfig)
    /\ (phase2.stage = "done" /\ pc = "handshake"
            /\ conf[phase2.from].certified_keys # << >>) =>
          Candidates(cc) # << >>

\* the final session was cloned from the initial server, which has certified
\* keys, for a selected server without base config and without keys: the
\* selection callback ran on no candidate and answered NULL
C30_Witness ==
    /\ phase2.stage = "done"
    /\ pc = "handshake"
    /\ phase2.from = phase2.initial
    /\ cc.server # phase2.initial
    /\ HoldsSessionFrom(phase2.initial)
    /\ conf[phase2.from].certified_keys # << >>
    /\ Candidates(cc) = << >>
    /\ ret.op = "select_certified_key"
    /\ ret.rv = NoObj

\* the two statements of C30 about the config the final session is cloned
\* from
ClonedFromSelectedElseInitial ==
    /\ (ret.op = "seen_client_hello" /\ phase2.stage = "done") =>
          HoldsSessionFrom(IF conf[cc.server].rustls_config THEN cc.server
                           ELSE phase2.initial)
    /\ (ret.op = "seen_client_hello" /\ phase2.stage = "config") =>
          /\ ~conf[cc.server].rustls_config
          /\ ~conf[phase2.initial].rustls_config
          /\ ret.rv = APR_NOTFOUND
          /\ Len(sessions) = 1
          /\ HoldsSessionFrom(HelloConfig)

\* Phase 2 found no base config on a selected server other than the initial
NoBaseConfigReached ==
    /\ ret.op = "seen_client_hello"
    /\ phase2.stage = "config"
    /\ cc.server # phase2.initial

\* C33: in every reachable state of a connection a non-empty cc.local_keys
\* implies that cc.service_unavailable is set; a request checked on a
\* connection that holds a challenge key is answered 503, whatever server the
\* request names; and a Phase 2 that stops because the challenge pair did not
\* load has failed and has left cc.local_keys empty.
C33_LocalKeysImplyUnavailable ==
    /\ (cc_set /\ cc.local_keys # << >>) => cc.service_unavailable = 1
    /\ (cc_set /\ cc.local_keys # << >> /\ ret.op = "request_check")
         => ret.rv = HTTP_SERVICE_UNAVAILABLE
    /\ (ret.op = "seen_client_hello" /\ phase2.ran /\ phase2.stage = "local_key")
         => /\ ret.rv \notin {APR_SUCCESS, NoReturn}
            /\ pc = "failed"
            /\ cc.local_keys = << >>

\* a request has been checked during traffic on a connection that holds the
\* challenge key, on a server that is not itself marked unavailable
C33_Witness ==
    /\ cc_set
    /\ cc.local_keys = <<ChallengeKey>>
    /\ conf[cc.server].service_unavailable = 0
    /\ cc.service_unavailable = 1
    /\ pc = "traffic"
    /\ ret.op = "request_check"
    /\ ret.rv = HTTP_SERVICE_UNAVAILABLE

\* Phase 2 has failed because the challenge pair did not load
ChallengeKeyNotLoaded ==
    /\ ret.op = "seen_client_hello"
    /\ phase2.stage = "local_key"
    /\ cc.local_keys = << >>
    /\ pc = "failed"

\* the session objects that have been created and not freed
LiveSessions == {i \in DOMAIN sessions : sessions[i].frees = 0}

\* the calls that set a connection up before any byte is read
SetupCalls == {"conn_disable", "conn_bind", "conn_init"}

\* C34: whatever sequence of conn_disable, conn_bind and conn_init is called
\* on a connection, after each call the connection has its one record, whose
\* release hook is registered once, no call on an existing record registers
\* another, and at most one session object exists, the one the record holds;
\* a conn_init on a connection that is enabled and holds its probe session
\* returns OK and changes neither the record nor the sessions.
C34_OneRecordOneSession ==
    [][(pc = "pre_connection" /\ ret'.op \in SetupCalls) =>
         /\ cc_set'
         /\ cleanups' = 1
         /\ cc_set => (cleanups = 1 /\ cleanups' = cleanups)
         /\ Len(sessions') <= 1
         /\ Len(sessions') = 1 =>
               (cc'.rustls_connection = 1 /\ sessions'[1].frees = 0)
         /\ ( /\ ret'.op = "conn_init"
              /\ cc_set
              /\ TLS_CONN_ST_IS_ENABLED(cc)
              /\ cc.rustls_connection # NoObj )
            => (cc' = cc /\ sessions' = sessions /\ ret'.rv = OK)]_vars

\* conn_bind has acted on a connection that conn_init had enabled and given
\* its probe session: one record, one hook, one session, and conn_init may
\* be called again
C34_Witness ==
    /\ pc = "pre_connection"
    /\ ret.op = "conn_bind"
    /\ cc_set
    /\ cc.dc = "dir"
    /\ cc.state = TLS_CONN_ST_PRE_HANDSHAKE
    /\ cc.rustls_connection = 1
    /\ Len(sessions) = 1
    /\ cleanups = 1
    /\ ENABLED tls_core_conn_init

\* in every state of a connection at most one session object is alive, and it
\* is the one the record holds
AtMostOneLiveSession ==
    /\ Cardinality(LiveSessions) <= 1
    /\ cleanups = (IF cc_set THEN 1 ELSE 0)
    /\ (cc_set /\ cc.rustls_connection # NoObj) => LiveSessions = {cc.rustls_connection}

Next ==
    \/ tls_core_conn_disable
    \/ tls_core_conn_bind
    \/ tls_core_conn_init
    \/ tls_core_conn_init_cleanup
    \/ extract_client_hello_values
    \/ tls_core_conn_seen_client_hello
    \/ select_application_protocol_cleanup
    \/ filter_start_handshake
    \/ client_hello_select_certified_key
    \/ tls_core_conn_post_handshake
    \/ filter_start_traffic
    \/ filter_shutdown
    \/ tls_core_request_check
    \/ tls_core_conn_free

Spec == Init /\ [][Next]_vars

(* ------------------------------ post-config --------------------------- *)

\* the protocol profile (gc->proto): the TLS versions the library supports
\* and its cipher suites in the library's default order
supported_versions == <<771, 772>>
supported_cipher_ids == <<4865, 4866, 49199>>
\* a cipher suite id the library does not know
UnknownCipher == 10

tls_util_array_uint16_contains(a, id) == \E i \in 1..Len(a) : a[i] = id

tls_proto_is_cipher_supported(id) ==
    tls_util_array_uint16_contains(supported_cipher_ids, id)

\* tls_util_array_uint16_remove: the ids of `from` not among `others`, in the
\* order of `from`
tls_util_array_uint16_remove(from, others) ==
    SelectSeq(from, LAMBDA id : id \notin others)

\* tls_proto_create_versions_plus: the supported versions not below min, in
\* the order of the profile
tls_proto_create_versions_plus(min_version) ==
    SelectSeq(supported_versions, LAMBDA v : v >= min_version)

\* the first loop of set_ciphers over tls_pref_ciphers from index i on:
\* ordered_ciphers (created with its first element, << >> stands for NULL)
\* and the preferred ids the library does not know
RECURSIVE set_ciphers_preferred(_, _, _, _)
set_ciphers_preferred(pref, ciphers, i, acc) ==
    IF i > Len(pref) THEN acc
    ELSE LET id == pref[i] IN
         IF tls_util_array_uint16_contains(ciphers, id)
         THEN set_ciphers_preferred(pref, ciphers, i + 1,
                  [acc EXCEPT !.ordered_ciphers = Append(@, id)])
         ELSE IF ~tls_proto_is_cipher_supported(id)
         THEN set_ciphers_preferred(pref, ciphers, i + 1,
                  [acc EXCEPT !.unsupported = Append(@, id)])
         ELSE set_ciphers_preferred(pref, ciphers, i + 1, acc)

\* the second loop of set_ciphers: the other allowed ciphers are appended
RECURSIVE set_ciphers_others(_, _, _)
set_ciphers_others(ciphers, i, ordered_ciphers) ==
    IF i > Len(ciphers) THEN ordered_ciphers
    ELSE IF ~tls_util_array_uint16_contains(ordered_ciphers, ciphers[i])
    THEN set_ciphers_others(ciphers, i + 1, Append(ordered_ciphers, ciphers[i]))
    ELSE set_ciphers_others(ciphers, i + 1, ordered_ciphers)

\* set_ciphers appending every allowed cipher in its second loop, those
\* already in ordered_ciphers too
set_ciphers_appending_all(sc, set_ok) ==
    LET allowed == tls_util_array_uint16_remove(supported_cipher_ids,
                                                sc.tls_supp_ciphers)
        first == set_ciphers_preferred(sc.tls_pref_ciphers, allowed, 1,
                     [ordered_ciphers |-> << >>, unsupported |-> << >>])
        ciphers == IF first.ordered_ciphers # << >>
                   THEN first.ordered_ciphers \o allowed
                   ELSE allowed
    IN  [ rv |-> IF set_ok THEN APR_SUCCESS ELSE APR_EGENERAL,
          ciphers |-> ciphers, configured |-> TRUE,
          warned |-> first.unsupported # << >>,
          unsupported |-> first.unsupported ]

\* set_ciphers: `ciphers` is the list the builder ends with (the library's
\* default when the builder is not touched), `configured` whether
\* rustls_server_config_builder_set_ciphersuites was called, `set_ok` what
\* that call answers, `warned` the warning about unknown preferred ciphers
set_ciphers(sc, set_ok) ==
    LET allowed == tls_util_array_uint16_remove(supported_cipher_ids,
                                                sc.tls_supp_ciphers)
        first == set_ciphers_preferred(sc.tls_pref_ciphers, allowed, 1,
                     [ordered_ciphers |-> << >>, unsupported |-> << >>])
        ciphers == IF first.ordered_ciphers # << >>
                   THEN set_ciphers_others(allowed, 1, first.ordered_ciphers)
                   ELSE allowed
        configured == \/ first.ordered_ciphers # << >>
                      \/ Len(allowed) # Len(supported_cipher_ids)
    IN  IF configured /\ ~set_ok
        THEN [ rv |-> APR_EGENERAL, ciphers |-> supported_cipher_ids,
               configured |-> FALSE, warned |-> FALSE,
               unsupported |-> first.unsupported ]
        ELSE [ rv |-> APR_SUCCESS, ciphers |-> ciphers, configured |-> configured,
               warned |-> first.unsupported # << >>,
               unsupported |-> first.unsupported ]

\* the servers post-config walks from the base server along s->next
PostServers == <<0, 1>>

\* we_listen_on: the base server when any TLSListen address is configured;
\* otherwise a server with an address of the same port and length as a
\* TLSListen address whose bytes, compared with themselves, are equal
we_listen_on(g, addrs, sc) ==
    IF g.tls_addresses # << >> /\ sc.base_server # 0 THEN 1
    ELSE IF \E i \in 1..Len(g.tls_addresses), j \in 1..Len(addrs) :
               LET la == g.tls_addresses[i]
                   sa == addrs[j]
               IN  /\ la.host_port = sa.host_port
                   /\ la.ipaddr_len = sa.ipaddr_len
                   /\ la.ipaddr_ptr = la.ipaddr_ptr
         THEN 1
         ELSE 0

\* the calls into the library and into other parts of the module that may
\* fail during post-config: once for the process, or for one server
GlobalFaults == {"tls_proto_post_config", "tls_cache_post_config",
                 "rustls_server_config_builder_new (hello)",
                 "rustls_server_config_builder_build (hello)",
                 "tls_ocsp_prime_certs"}
ServerFaults == {"tls_conf_server_apply_defaults", "tls_cert_client_verifiers_get",
                 "rustls_server_config_builder_new",
                 "tls_cert_reg_get_certified_key",
                 "rustls_server_config_builder_set_versions",
                 "rustls_server_config_builder_set_ciphersuites",
                 "rustls_server_config_builder_set_ignore_client_order",
                 "rustls_server_config_builder_set_protocols",
                 "tls_cache_init_server", "rustls_server_config_builder_build"}

\* what other modules add for a server (ap_ssl_add_cert_files) and offer as
\* fallback (ap_ssl_add_fallback_cert_files); nothing for the base server
Contributions(s) ==
    IF s = ap_server_conf
    THEN {[cert_adds |-> << >>, fallback_adds |-> << >>]}
    ELSE [ cert_adds : {<< >>, <<RegKeys(s)[2]>>},
           fallback_adds : {<< >>, FallbackKeys(s)} ]

\* one run of post-config meets at most one failing call: the first failure
\* ends the run, so later ones cannot show
PostConfigInputs ==
    { in \in [ fault : {"none"} \cup GlobalFaults \cup ServerFaults,
               at : {0, 1},
               adds : [{0, 1} -> Contributions(0) \cup Contributions(1)] ] :
        /\ in.fault \in {"none"} \cup GlobalFaults => in.at = 0
        /\ \A s \in {0, 1} : in.adds[s] \in Contributions(s) }

\* a server's base config before it is built
NoConfig == [built |-> FALSE, versions |-> << >>, ciphers |-> << >>,
             protocols |-> << >>]

LogLine(level, what, s) == [level |-> level, what |-> what, server |-> s]

\* the protocol version step of server_conf_setup without its warning
set_protocol_min_silent(sc) ==
    [ tls_versions |-> tls_proto_create_versions_plus(sc.tls_protocol_min),
      warned |-> FALSE ]

\* the protocol version step of server_conf_setup for a configured minimum:
\* the versions handed to the builder, and whether the warning about another
\* version than the configured one is logged
set_protocol_min(sc) ==
    LET tls_versions == tls_proto_create_versions_plus(sc.tls_protocol_min) IN
    [ tls_versions |-> tls_versions,
      warned |-> /\ tls_versions # << >>
                 /\ sc.tls_protocol_min # tls_versions[1] ]

\* server_conf_setup for server s; `loops` says that the cleanup block jumps
\* back to its own label with rr still set and the call does not return
server_conf_setup(sc, s, in) ==
    LET fails(call) == in.fault = call /\ in.at = s
        certs == complete_cert_specs(sc.cert_specs, in.adds[s].cert_adds,
                                     in.adds[s].fallback_adds)
        sc1 == [sc EXCEPT !.certified_keys = << >>,
                          !.service_unavailable =
                              IF certs.service_unavailable = 1 THEN 1 ELSE @]
        certlog == IF certs.service_unavailable = 1
                   THEN {LogLine("warning", "fallback certificates", s)}
                   ELSE IF certs.specs = << >> /\ sc.base_server = 0
                   THEN {LogLine("error", "no certificates configured", s)}
                   ELSE {}
        sc2 == [sc1 EXCEPT !.certified_keys = certs.specs]
        tls_versions == set_protocol_min(sc).tls_versions
        verlog == IF sc.tls_protocol_min > 0 /\ set_protocol_min(sc).warned
                  THEN {LogLine("warning", "protocol version selected instead", s)}
                  ELSE {}
        ciph == set_ciphers(sc, ~fails("rustls_server_config_builder_set_ciphersuites"))
        ciphlog == IF ciph.warned
                   THEN {LogLine("warning", "preferred ciphers unsupported", s)}
                   ELSE {}
        log == certlog \cup verlog \cup ciphlog
        out(c, rv, lg, loops, step) ==
            [sc |-> c, rv |-> rv, log |-> lg, loops |-> loops, step |-> step]
    IN  IF sc.client_auth # TLS_CLIENT_AUTH_NONE /\ ~sc.client_ca
        THEN out(sc, APR_EINVAL, {LogLine("error", "no client CA", s)}, FALSE,
                 "client_ca")
        ELSE IF /\ sc.client_auth # TLS_CLIENT_AUTH_NONE
                /\ fails("tls_cert_client_verifiers_get")
        THEN out(sc, APR_EGENERAL, {}, FALSE, in.fault)
        ELSE IF fails("rustls_server_config_builder_new")
        THEN out(sc, APR_ENOMEM, {}, FALSE, in.fault)
        ELSE IF certs.specs # << >> /\ fails("tls_cert_reg_get_certified_key")
        THEN out(sc1, APR_EGENERAL,
                 certlog \cup {LogLine("error", "failed to load certificate", s)},
                 FALSE, in.fault)
        ELSE IF sc.tls_protocol_min > 0 /\ tls_versions = << >>
        THEN out(sc2, APR_ENOTIMPL,
                 certlog \cup {LogLine("error", "no protocol version available", s)},
                 FALSE, "tls_proto_create_versions_plus")
        ELSE IF /\ sc.tls_protocol_min > 0
                /\ fails("rustls_server_config_builder_set_versions")
        THEN out(sc2, NoReturn, certlog, TRUE, in.fault)
        ELSE IF ciph.rv # APR_SUCCESS
        THEN out(sc2, ciph.rv, certlog \cup verlog, FALSE, in.fault)
        ELSE IF fails("rustls_server_config_builder_set_ignore_client_order")
        THEN out(sc2, NoReturn, log, TRUE, in.fault)
        ELSE IF fails("rustls_server_config_builder_set_protocols")
        THEN out(sc2, NoReturn, log, TRUE, in.fault)
        ELSE IF fails("tls_cache_init_server")
        THEN out(sc2, APR_EGENERAL, log, FALSE, in.fault)
        ELSE IF fails("rustls_server_config_builder_build")
        THEN out(sc2, APR_ENOMEM, log, FALSE, in.fault)
        ELSE out([sc2 EXCEPT !.rustls_config =
                      [ built |-> TRUE,
                        versions |-> IF sc.tls_protocol_min > 0 THEN tls_versions
                                     ELSE supported_versions,
                        ciphers |-> ciph.ciphers,
                        protocols |-> BaseProtocols ]],
                 APR_SUCCESS, log, FALSE, "none")

\* setup_hello_config: TRUE when the hello config was built; when the builder
\* or the config cannot be made rr is set and the cleanup block jumps back to
\* its own label
setup_hello_config(in) ==
    IF in.fault \in {"rustls_server_config_builder_new (hello)",
                     "rustls_server_config_builder_build (hello)"}
    THEN [rustls_hello_config |-> FALSE, rv |-> NoReturn, loops |-> TRUE]
    ELSE [rustls_hello_config |-> TRUE, rv |-> APR_SUCCESS, loops |-> FALSE]

\* the step post-config failed in and the server it was setting up; no step
NoFailure == [step |-> "none", server |-> NoServer]

\* the second loop of tls_core_init over the servers, from the i-th on
RECURSIVE setup_servers(_, _, _, _)

\* the loop's body once server_conf_setup has answered r for the i-th server
setup_servers_checked(cf, i, in, log, r) ==
    IF r.loops
    THEN [conf |-> [cf EXCEPT ![PostServers[i]] = r.sc], rv |-> NoReturn,
          log |-> log \cup r.log, loops |-> TRUE,
          failed |-> [step |-> r.step, server |-> PostServers[i]]]
    ELSE IF r.rv # APR_SUCCESS
    THEN [conf |-> [cf EXCEPT ![PostServers[i]] = r.sc], rv |-> r.rv,
          log |-> log \cup r.log
                      \cup {LogLine("error", "server setup failed", PostServers[i])},
          loops |-> FALSE,
          failed |-> [step |-> r.step, server |-> PostServers[i]]]
    ELSE setup_servers([cf EXCEPT ![PostServers[i]] = r.sc], i + 1, in,
                       log \cup r.log)

setup_servers(cf, i, in, log) ==
    IF i > Len(PostServers)
    THEN [conf |-> cf, rv |-> APR_SUCCESS, log |-> log, loops |-> FALSE,
          failed |-> NoFailure]
    ELSE IF in.fault = "tls_conf_server_apply_defaults" /\ in.at = PostServers[i]
    THEN [conf |-> cf, rv |-> APR_EGENERAL, log |-> log, loops |-> FALSE,
          failed |-> [step |-> in.fault, server |-> PostServers[i]]]
    ELSE IF cf[PostServers[i]].enabled # TLS_FLAG_TRUE
    THEN setup_servers(cf, i + 1, in, log)
    ELSE setup_servers_checked(cf, i, in, log,
             server_conf_setup(cf[PostServers[i]], PostServers[i], in))

\* the first loop of tls_core_init: base_server and enabled of every server
enable_servers(cf, g) ==
    LET marked == [s \in DOMAIN cf |->
                      [cf[s] EXCEPT !.base_server =
                                        IF s = ap_server_conf THEN 1 ELSE 0]]
    IN  [s \in DOMAIN cf |->
            [marked[s] EXCEPT !.enabled =
                IF we_listen_on(g, marked[s].addrs, marked[s]) = 1
                THEN TLS_FLAG_TRUE ELSE TLS_FLAG_FALSE]]

\* the cleanup block of tls_core_init for a run that ends with status rv
core_init_cleanup(cf, g, rv, log, failed) ==
    [ conf |-> cf, gc |-> g, rv |-> rv, failed |-> failed,
      log |-> IF rv # APR_SUCCESS
              THEN log \cup {LogLine("error", "error during post_config", 0)}
              ELSE log,
      at |-> "post_config_done" ]

\* tls_core_init once the loop over the servers has answered
core_init_servers_done(servers, g, in) ==
    IF servers.loops
    THEN [ conf |-> servers.conf, gc |-> g, rv |-> NoReturn,
           failed |-> servers.failed,
           log |-> servers.log, at |-> "server_conf_setup_cleanup" ]
    ELSE IF servers.rv # APR_SUCCESS
    THEN core_init_cleanup(servers.conf, g, servers.rv, servers.log,
                           servers.failed)
    ELSE IF in.fault = "tls_ocsp_prime_certs"
    THEN core_init_cleanup(servers.conf, g, APR_EGENERAL, servers.log,
                           [step |-> in.fault, server |-> NoServer])
    ELSE core_init_cleanup(servers.conf, g, APR_SUCCESS, servers.log, NoFailure)

\* tls_core_init from tls_cache_post_config on, with the servers marked
core_init_enabled(cf, g, in, hello) ==
    IF in.fault = "tls_cache_post_config"
    THEN core_init_cleanup(cf, g, APR_EGENERAL, {},
                           [step |-> in.fault, server |-> NoServer])
    ELSE IF hello.loops
    THEN [ conf |-> cf,
           gc |-> [g EXCEPT !.rustls_hello_config = hello.rustls_hello_config],
           rv |-> NoReturn, failed |-> [step |-> in.fault, server |-> NoServer],
           log |-> {}, at |-> "setup_hello_config_cleanup" ]
    ELSE core_init_servers_done(
             setup_servers(cf, 1, in, {}),
             [g EXCEPT !.rustls_hello_config = hello.rustls_hello_config], in)

\* tls_core_init; `at` names the place the run ends in or turns in
core_init(cf, g, in) ==
    IF in.fault = "tls_proto_post_config"
    THEN core_init_cleanup(cf, g, APR_EGENERAL, {},
                           [step |-> in.fault, server |-> NoServer])
    ELSE core_init_enabled(enable_servers(cf, g), g, in, setup_hello_config(in))

\* a tls_conf_server_t as directive parsing leaves it, with the addresses of
\* its server_rec
ParsedConf(addrs, cert_specs, auth, min_version, pref) ==
    [ addrs |-> addrs, enabled |-> TLS_FLAG_UNSET, base_server |-> 0,
      cert_specs |-> cert_specs, certified_keys |-> << >>,
      service_unavailable |-> 0,
      client_auth |-> auth.client_auth, client_ca |-> auth.client_ca,
      tls_protocol_min |-> min_version,
      tls_pref_ciphers |-> pref, tls_supp_ciphers |-> {},
      strict_sni |-> TLS_FLAG_FALSE, rustls_config |-> NoConfig ]

AuthChoices ==
    { [client_auth |-> TLS_CLIENT_AUTH_NONE, client_ca |-> FALSE],
      [client_auth |-> TLS_CLIENT_AUTH_OPTIONAL, client_ca |-> FALSE],
      [client_auth |-> TLS_CLIENT_AUTH_REQUIRED, client_ca |-> TRUE] }

\* TLSProtocol values: unset, below every supported version, the supported
\* ones, above every supported version
ProtocolMinChoices == {0, 770, 771, 772, 773}

PostConfigInit ==
    /\ \E la \in {<< >>, <<ListenAddr>>} :
         gc = [tls_addresses |-> la, rustls_hello_config |-> FALSE]
    /\ \E addrs \in {<<ListenAddr>>, <<OtherHostAddr>>, <<OtherPortAddr>>},
          certs0 \in {<< >>, <<RegKeys(0)[1]>>},
          certs1 \in {<< >>, <<RegKeys(1)[1]>>},
          auth \in AuthChoices,
          min_version \in ProtocolMinChoices,
          pref \in {<< >>, <<49199>>} :
         conf = [s \in {0, 1} |->
                    IF s = 0
                    THEN ParsedConf(<<ListenAddr>>, certs0, CHOOSE a \in AuthChoices :
                                        a.client_auth = TLS_CLIENT_AUTH_NONE, 0, << >>)
                    ELSE ParsedConf(addrs, certs1, auth, min_version, pref)]
    /\ chain = << >>
    /\ base_server = ap_server_conf
    /\ outgoing = 0
    /\ cc_set = FALSE
    /\ cc = ZeroCC
    /\ cleanups = 0
    /\ aborted = 0
    /\ host_protocol = "http/1.1"
    /\ sessions = << >>
    /\ clones = 0
    /\ freed_keys = << >>
    /\ switch_calls = << >>
    /\ phase2 = NoPhase2
    /\ selects = 0
    /\ pc = "post_config"
    /\ ret = [op |-> "none", rv |-> APR_SUCCESS]

connvars == <<chain, base_server, outgoing, cc_set, cc, cleanups, aborted,
              host_protocol, sessions, clones, freed_keys, switch_calls, phase2,
              selects>>

\* the host runs the post-config hook
tls_core_init ==
    /\ pc = "post_config"
    /\ \E in \in PostConfigInputs :
         \E r \in {core_init(conf, gc, in)} :
           /\ conf' = r.conf
           /\ gc' = r.gc
           /\ pc' = r.at
           /\ ret' = [op |-> "tls_core_init", rv |-> r.rv, log |-> r.log,
                      in |-> in, failed |-> r.failed,
                      builder_freed_again |-> FALSE]
    /\ UNCHANGED connvars

\* setup_hello_config turns in its cleanup block: rr is still set, the error
\* is logged again and the block is entered again
setup_hello_config_cleanup ==
    /\ pc = "setup_hello_config_cleanup"
    /\ UNCHANGED vars

\* server_conf_setup turns in its cleanup block: the builder, not set to NULL,
\* is freed again on every turn; what a second free of it does is not
\* defined, the process may go on turning or die
server_conf_setup_cleanup ==
    /\ pc = "server_conf_setup_cleanup"
    /\ \E dies \in BOOLEAN :
         pc' = IF dies THEN "crashed" ELSE pc
    /\ ret' = [ret EXCEPT !.builder_freed_again = TRUE]
    /\ UNCHANGED <<gc, conf, connvars>>

PostConfigNext ==
    \/ tls_core_init
    \/ setup_hello_config_cleanup
    \/ server_conf_setup_cleanup

PostConfigSpec == PostConfigInit /\ [][PostConfigNext]_vars

(* ---------------- set_ciphers over bounded cipher lists ---------------- *)

\* the longest TLSCiphersPrefer list tried
MaxPref == 2

\* TLSCiphersPrefer lists: any ids the library knows and one it does not, in
\* any order, repeated or not
PrefLists ==
    UNION {[1..n -> SeqToSet(supported_cipher_ids) \cup {UnknownCipher}] :
               n \in 0..MaxPref}

SetCiphersInit ==
    /\ gc = [tls_addresses |-> <<ListenAddr>>, rustls_hello_config |-> FALSE]
    /\ \E pref \in PrefLists, supp \in SUBSET SeqToSet(supported_cipher_ids) :
         conf = [s \in {0} |->
                    [ParsedConf(<<ListenAddr>>, << >>,
                                [client_auth |-> TLS_CLIENT_AUTH_NONE,
                                 client_ca |-> FALSE], 0, pref)
                       EXCEPT !.tls_supp_ciphers = supp]]
    /\ chain = << >>
    /\ base_server = ap_server_conf
    /\ outgoing = 0
    /\ cc_set = FALSE
    /\ cc = ZeroCC
    /\ cleanups = 0
    /\ aborted = 0
    /\ host_protocol = "http/1.1"
    /\ sessions = << >>
    /\ clones = 0
    /\ freed_keys = << >>
    /\ switch_calls = << >>
    /\ phase2 = NoPhase2
    /\ selects = 0
    /\ pc = "set_ciphers"
    /\ ret = [op |-> "none", rv |-> APR_SUCCESS]

\* server_conf_setup calls set_ciphers for the server
call_set_ciphers ==
    /\ pc = "set_ciphers"
    /\ \E set_ok \in BOOLEAN :
         ret' = [op |-> "set_ciphers", result |-> set_ciphers(conf[0], set_ok)]
    /\ pc' = "set_ciphers_done"
    /\ UNCHANGED <<gc, conf, connvars>>

SetCiphersSpec == SetCiphersInit /\ [][call_set_ciphers]_vars

\* C28: when set_ciphers succeeds, the cipher list of the server is: if a
\* preferred cipher is allowed (supported and not suppressed), the preferred
\* ciphers that are allowed, in their configured order, followed by the other
\* allowed ciphers in the library's order; otherwise the allowed ciphers in
\* the library's order. Ciphers not listed as preferred keep their relative
\* order of the library.
C28_CipherOrder ==
    (ret.op = "set_ciphers" /\ ret.result.rv = APR_SUCCESS) =>
        LET sc == conf[0]
            list == ret.result.ciphers
            allowed == SelectSeq(supported_cipher_ids,
                                 LAMBDA id : id \notin sc.tls_supp_ciphers)
            preferred == SelectSeq(sc.tls_pref_ciphers,
                                   LAMBDA id : id \in SeqToSet(allowed))
            others == SelectSeq(allowed,
                                LAMBDA id : id \notin SeqToSet(sc.tls_pref_ciphers))
            Position(q, id) == CHOOSE i \in 1..Len(q) : q[i] = id
        IN  /\ list = IF preferred # << >> THEN preferred \o others ELSE allowed
            /\ \A a, b \in SeqToSet(list) \ SeqToSet(sc.tls_pref_ciphers) :
                  Position(supported_cipher_ids, a) < Position(supported_cipher_ids, b)
                     => Position(list, a) < Position(list, b)

\* a preferred list naming the library's last cipher, then an unknown one,
\* with the library's first cipher suppressed
C28_Witness ==
    /\ ret.op = "set_ciphers"
    /\ ret.result.rv = APR_SUCCESS
    /\ conf[0].tls_pref_ciphers = <<49199, UnknownCipher>>
    /\ conf[0].tls_supp_ciphers = {4865}
    /\ ret.result.ciphers = <<49199, 4866>>
    /\ ret.result.warned

(* ------------------------ post-config properties ----------------------- *)

\* server s is an enabled vhost other than the base server with no
\* certificate configured, none contributed and no fallback offered
WithoutCertificates(s) ==
    /\ s # ap_server_conf
    /\ conf[s].enabled = TLS_FLAG_TRUE
    /\ conf[s].cert_specs = << >>
    /\ ret.in.adds[s].cert_adds = << >>
    /\ ret.in.adds[s].fallback_adds = << >>

\* C26: when tls_core_init has returned and an enabled server other than the
\* base server had no certificate configured, none contributed and no
\* fallback offered, the status returned is not APR_SUCCESS.
C26_NoCertificatesFails ==
    (/\ pc = "post_config_done"
     /\ ret.op = "tls_core_init"
     /\ \E s \in DOMAIN conf : WithoutCertificates(s))
        => ret.rv # APR_SUCCESS

\* post-config succeeded for a vhost without any certificate: the error was
\* logged, the base config was built and the vhost has no certified key
C26_Witness ==
    /\ pc = "post_config_done"
    /\ ret.op = "tls_core_init"
    /\ ret.rv = APR_SUCCESS
    /\ WithoutCertificates(1)
    /\ LogLine("error", "no certificates configured", 1) \in ret.log
    /\ conf[1].rustls_config.built
    /\ conf[1].certified_keys = << >>

\* the steps of building a server's base config and the hello config that
\* may fail: the rejections of the library's builder, and the others
BuilderRejections ==
    { "rustls_server_config_builder_set_versions",
      "rustls_server_config_builder_set_ciphersuites",
      "rustls_server_config_builder_set_ignore_client_order",
      "rustls_server_config_builder_set_protocols" }
HelloSteps ==
    { "rustls_server_config_builder_new (hello)",
      "rustls_server_config_builder_build (hello)" }
BuildSteps ==
    {"client_ca", "tls_cert_reg_get_certified_key", "tls_proto_create_versions_plus"}
        \cup BuilderRejections \cup HelloSteps

\* post-config has returned a failure status and the server it failed on, if
\* any, has no base config
ReturnedFailure ==
    /\ pc = "post_config_done"
    /\ ret.rv \notin {APR_SUCCESS, NoReturn}
    /\ ret.failed.server # NoServer =>
          ~conf[ret.failed.server].rustls_config.built

\* C27: when a step of building a server's base config or the hello config
\* fails (no client CA with client authentication enabled, a certificate
\* that does not load, no protocol version left, the builder rejecting the
\* versions, the ciphers, the client-order flag or the ALPN protocols),
\* tls_core_init returns, with a failure status, and the failing server has
\* no base config.
C27_ErrorsFailPostConfig ==
    (ret.op = "tls_core_init" /\ ret.failed.step \in BuildSteps)
        => ReturnedFailure

\* the builder rejected the ALPN protocols of the vhost: server_conf_setup
\* turns in its cleanup block and has freed the builder once more
C27_Witness ==
    /\ ret.op = "tls_core_init"
    /\ ret.failed = [step |-> "rustls_server_config_builder_set_protocols",
                     server |-> 1]
    /\ pc = "server_conf_setup_cleanup"
    /\ ret.rv = NoReturn
    /\ ret.builder_freed_again
    /\ ~conf[1].rustls_config.built

\* the steps whose failure leaves rr unset do make tls_core_init return a
\* failure status
ErrorsFailWhenRrUnset ==
    (/\ ret.op = "tls_core_init"
     /\ ret.failed.step \in (BuildSteps \ HelloSteps)
            \ { "rustls_server_config_builder_set_versions",
                "rustls_server_config_builder_set_ignore_client_order",
                "rustls_server_config_builder_set_protocols" })
        => ReturnedFailure

Lowest(q) == CHOOSE v \in SeqToSet(q) : \A w \in SeqToSet(q) : v <= w

ProtocolMinWarning(s) ==
    LogLine("warning", "protocol version selected instead", s) \in ret.log

\* nothing but the protocol version step can fail in this run for server s
OnlyVersionsCanFail(s) ==
    /\ ret.in.fault = "none"
    /\ \A t \in DOMAIN conf :
          conf[t].client_auth = TLS_CLIENT_AUTH_NONE \/ conf[t].client_ca
    /\ \A t \in DOMAIN conf \ {s} :
          conf[t].tls_protocol_min <= Lowest(supported_versions)

ProtocolMinAboveReached ==
    /\ ret.op = "tls_core_init"
    /\ pc = "post_config_done"
    /\ ret.rv = APR_ENOTIMPL
    /\ conf[1].tls_protocol_min = 773
    /\ ret.failed = [step |-> "tls_proto_create_versions_plus", server |-> 1]

\* one of the addresses of server s has the port, the address length and the
\* address bytes of a TLSListen address
ExactListenMatch(s) ==
    \E i \in 1..Len(gc.tls_addresses), j \in 1..Len(conf[s].addrs) :
        /\ gc.tls_addresses[i].host_port = conf[s].addrs[j].host_port
        /\ gc.tls_addresses[i].ipaddr_len = conf[s].addrs[j].ipaddr_len
        /\ gc.tls_addresses[i].ipaddr_ptr = conf[s].addrs[j].ipaddr_ptr

\* tls_core_init has been through its first loop over the servers
ServersMarked ==
    /\ ret.op = "tls_core_init"
    /\ ret.in.fault # "tls_proto_post_config"

\* C31: once tls_core_init has marked the servers, a server other than the
\* base server is enabled exactly if one of its addresses matches a
\* TLSListen address in port, length and bytes; the base server is enabled
\* exactly if a TLSListen address is configured; without any TLSListen
\* address no server is enabled.
C31_EnabledIffListening ==
    ServersMarked =>
        \A s \in DOMAIN conf :
            /\ s # ap_server_conf =>
                  (conf[s].enabled = TLS_FLAG_TRUE <=> ExactListenMatch(s))
            /\ s = ap_server_conf =>
                  (conf[s].enabled = TLS_FLAG_TRUE <=> gc.tls_addresses # << >>)
            /\ gc.tls_addresses = << >> => conf[s].enabled # TLS_FLAG_TRUE

\* post-config succeeded with the vhost enabled and its base config built
\* although its only address differs from the TLSListen address in its bytes
C31_Witness ==
    /\ ServersMarked
    /\ pc = "post_config_done"
    /\ ret.rv = APR_SUCCESS
    /\ gc.tls_addresses = <<ListenAddr>>
    /\ conf[1].addrs = <<OtherHostAddr>>
    /\ ~ExactListenMatch(1)
    /\ conf[1].enabled = TLS_FLAG_TRUE
    /\ conf[1].rustls_config.built

\* what the code does decide for a server other than the base server: the
\* same port and the same address length as a TLSListen address
EnabledIffPortAndLength ==
    ServersMarked =>
        \A s \in DOMAIN conf :
            /\ s # ap_server_conf =>
                  (conf[s].enabled = TLS_FLAG_TRUE <=>
                      \E i \in 1..Len(gc.tls_addresses), j \in 1..Len(conf[s].addrs) :
                          /\ gc.tls_addresses[i].host_port = conf[s].addrs[j].host_port
                          /\ gc.tls_addresses[i].ipaddr_len = conf[s].addrs[j].ipaddr_len)
            /\ s = ap_server_conf =>
                  (conf[s].enabled = TLS_FLAG_TRUE <=> gc.tls_addresses # << >>)
            /\ gc.tls_addresses = << >> => conf[s].enabled # TLS_FLAG_TRUE

\* the ids the library supports and the server does not suppress
AllowedCiphers(sc) == SeqToSet(supported_cipher_ids) \ sc.tls_supp_ciphers

\* C32: when set_ciphers succeeds, the cipher list of the server is a
\* permutation of the supported ciphers that are not suppressed: every
\* allowed cipher is in it exactly once, and no suppressed cipher and no
\* cipher unknown to the library is in it.
C32_CipherPermutation ==
    (ret.op = "set_ciphers" /\ ret.result.rv = APR_SUCCESS) =>
        /\ SeqToSet(ret.result.ciphers) = AllowedCiphers(conf[0])
        /\ Len(ret.result.ciphers) = Cardinality(AllowedCiphers(conf[0]))

\* a preferred list naming the same allowed cipher twice: the cipher is in
\* the configured list twice
C32_Witness ==
    /\ ret.op = "set_ciphers"
    /\ ret.result.rv = APR_SUCCESS
    /\ ret.result.configured
    /\ conf[0].tls_pref_ciphers = <<4866, 4866>>
    /\ conf[0].tls_supp_ciphers = {}
    /\ ret.result.ciphers = <<4866, 4866, 4865, 49199>>

\* the list holds every allowed cipher, no suppressed and no unknown one
CipherListIsAllowedSet ==
    (ret.op = "set_ciphers" /\ ret.result.rv = APR_SUCCESS) =>
        SeqToSet(ret.result.ciphers) = AllowedCiphers(conf[0])

=============================================================================
